---------------------------- MODULE Spec2Model ----------------------------
(***************************************************************************)
(* Model of modules/hw/vaapi/filters.c: the VAAPI video filters of VLC     *)
(* (adjust, denoise/sharpen, deinterlace).                                 *)
(*                                                                         *)
(* One filter object lives through OpenXxx -> frames / control updates ->  *)
(* CloseXxx.  The filter thread is modelled statement by statement (pc);   *)
(* every driver call is one step whose outcome (success or failure) is     *)
(* chosen by the driver.  The control path (FilterCallback) and the        *)
(* downstream consumer run concurrently with the filter thread.            *)
(*                                                                         *)
(* Floats are fixed-point integers in thousandths (2.f is 2000, .35f is    *)
(* 350): GET_DRV_SIGMA multiplies before it divides, so the scale cancels. *)
(* The driver ranges tried keep every product below 2^31.                  *)
(***************************************************************************)
EXTENDS Integers, Sequences, FiniteSets, TLC

(***************************************************************************)
(* Bounds of the model                                                     *)
(***************************************************************************)
MaxFrames == 4      \* source frames submitted to one session
MaxAdjustFrames == 2 \* source frames submitted to one Adjust session
MaxRefs == 1        \* largest forward / backward reference count reported
MaxUpdates == 1     \* control updates delivered to one session

(***************************************************************************)
(* Program constants                                                       *)
(***************************************************************************)
DEST_PICS_POOL_SZ == 3
VA_INVALID_ID == -1
ADJUST_CONT == 0
ADJUST_LUM == 1
ADJUST_HUE == 2
ADJUST_SAT == 3
NUM_ADJUST_MODES == 4

VLC_SUCCESS == "VLC_SUCCESS"
VLC_EGENERIC == "VLC_EGENERIC"
VLC_ENOMEM == "VLC_ENOMEM"
NULL == 0

\* The color balance types of the driver interface; the capability array of
\* OpenAdjust_InitFilterParams has VAProcColorBalanceCount slots.
VAProcColorBalanceTypes ==
    << "VAProcColorBalanceHue", "VAProcColorBalanceSaturation",
       "VAProcColorBalanceBrightness", "VAProcColorBalanceContrast",
       "VAProcColorBalanceAutoSaturation", "VAProcColorBalanceAutoBrightness",
       "VAProcColorBalanceAutoContrast" >>
VAProcColorBalanceCount == Len(VAProcColorBalanceTypes) + 1

va_adjust_modes ==
    [ i \in 0 .. NUM_ADJUST_MODES - 1 |->
        CASE i = ADJUST_CONT -> "VAProcColorBalanceContrast"
          [] i = ADJUST_LUM  -> "VAProcColorBalanceBrightness"
          [] i = ADJUST_HUE  -> "VAProcColorBalanceHue"
          [] i = ADJUST_SAT  -> "VAProcColorBalanceSaturation" ]

adjust_params_names ==
    [ i \in 0 .. NUM_ADJUST_MODES - 1 |->
        CASE i = ADJUST_CONT -> "contrast"
          [] i = ADJUST_LUM  -> "brightness"
          [] i = ADJUST_HUE  -> "hue"
          [] i = ADJUST_SAT  -> "saturation" ]

Range(lo, hi) == [min_value |-> lo, max_value |-> hi]

vlc_adjust_sigma_ranges ==
    [ i \in 0 .. NUM_ADJUST_MODES - 1 |->
        CASE i = ADJUST_CONT -> Range(0, 2000)
          [] i = ADJUST_LUM  -> Range(0, 2000)
          [] i = ADJUST_HUE  -> Range(-180000, 180000)
          [] i = ADJUST_SAT  -> Range(0, 3000) ]

vlc_denoise_sigma_range == Range(0, 2000)
vlc_sharpen_sigma_range == Range(0, 2000)

deint_modes ==
    << [name |-> "x",    type |-> "VAProcDeinterlacingMotionAdaptive"],
       [name |-> "x",    type |-> "VAProcDeinterlacingMotionCompensated"],
       [name |-> "bob",  type |-> "VAProcDeinterlacingBob"],
       [name |-> "mean", type |-> "VAProcDeinterlacingWeave"] >>

(***************************************************************************)
(* Pure helpers                                                            *)
(***************************************************************************)
\* VLC_CLIP(v, min, max) is __MIN(__MAX(v, min), max).
VLC_CLIP(v, lo, hi) ==
    LET m == IF v > lo THEN v ELSE lo
    IN  IF m < hi THEN m ELSE hi

\* GET_DRV_SIGMA with the offset of the driver range forgotten.
GET_DRV_SIGMA_NoOffset(vlc_sigma, vlc_range, drv_range) ==
    ((vlc_sigma - vlc_range.min_value)
        * (drv_range.max_value - drv_range.min_value))
      \div (vlc_range.max_value - vlc_range.min_value)

GET_DRV_SIGMA(vlc_sigma, vlc_range, drv_range) ==
    ((vlc_sigma - vlc_range.min_value)
        * (drv_range.max_value - drv_range.min_value))
      \div (vlc_range.max_value - vlc_range.min_value)
    + drv_range.min_value

\* adapt_adjust_sigma without the narrower ranges.
adapt_adjust_sigma_Identity(psz_var, sigma, p_range) == sigma

adapt_adjust_sigma(psz_var, sigma, p_range) ==
    IF psz_var = "contrast"
    THEN GET_DRV_SIGMA(sigma, p_range, Range(0, 350))
    ELSE IF psz_var = "saturation"
    THEN GET_DRV_SIGMA(sigma, p_range, Range(0, 1000))
    ELSE sigma

\* The driver hands out the least identifier that is not live.
FreshId(live) == CHOOSE i \in 1 .. Cardinality(live) + 1 :
                    /\ i \notin live
                    /\ \A k \in 1 .. i - 1 : k \in live

Min(S) == CHOOSE x \in S : \A y \in S : x <= y

(***************************************************************************)
(* State                                                                   *)
(***************************************************************************)
VARIABLES
    pc,          \* the statement the filter thread executes next
    psz_name,    \* filter->psz_name: which submodule this filter object is
    filter_sys,  \* struct filter_sys_t (filter->p_sys)
    p_data,      \* filter_sys->p_data: adjust_data, basic_filter_data or deint_data
    drv,         \* what the driver and the picture pool hold for this filter
    param_buf,   \* content of the filter parameter buffer va.buf
    pool,        \* the output pictures of dest_pics
    frames,      \* the source pictures submitted so far
    loc,         \* locals of the running call
    va_calls,    \* driver calls issued by the running call, in order
    callbacks,   \* variable names FilterCallback is registered for
    n_updates,   \* control updates delivered so far
    stored,      \* the value of the last store into each drv_value
    ub           \* out-of-bounds accesses executed so far

vars == << pc, psz_name, filter_sys, p_data, drv, param_buf, pool, frames,
           loc, va_calls, callbacks, n_updates, stored, ub >>

NoSys == [ alloc |-> FALSE, inst |-> FALSE, dest_pics |-> FALSE,
           conf |-> 0, ctx |-> 0, buf |-> 0, b_pipeline_fast |-> FALSE ]

NoData == [ kind |-> "none" ]

NoDrv == [ inst_refs |-> 0, pool |-> FALSE, configs |-> {}, contexts |-> {},
           buffers |-> {}, in_picture |-> FALSE, reported |-> {} ]

NoPipelineCaps == [ num_backward_references |-> 0,
                    num_forward_references |-> 0, fast |-> FALSE ]

\* The formats of the filter before Open has looked at them.
NoFmt == [ i_chroma |-> "0", similar |-> FALSE ]

NoLoc == [ ret |-> "none", src |-> NULL, dest |-> NULL, out |-> NULL,
           called |-> FALSE, fmt |-> NoFmt,
           pipeline_buf |-> VA_INVALID_ID, pipeline_buf_init |-> FALSE,
           p_va_params |-> << >>,
           i_num_params |-> 0, pipeline_caps |-> NoPipelineCaps,
           pipeline_params |-> [ set |-> FALSE ], i |-> 0, j |-> 0 ]

NoPool == [ free |-> {}, refs |-> [ d \in 1 .. DEST_PICS_POOL_SZ |-> 0 ],
            props |-> [ d \in 1 .. DEST_PICS_POOL_SZ |->
                          [ from |-> NULL, b_progressive |-> FALSE ] ] ]

NoFrames == [ n |-> 0, refs |-> [ f \in 1 .. MaxFrames |-> 0 ],
              tff |-> [ f \in 1 .. MaxFrames |-> FALSE ] ]

Call(op, handle) == [ op |-> op, handle |-> handle ]

\* A call that is given a surface besides the handle.
CallOn(op, handle, surface) ==
    [ op |-> op, handle |-> handle, surface |-> surface ]

Init ==
    /\ pc = "unloaded"
    /\ psz_name = "none"
    /\ filter_sys = NoSys
    /\ p_data = NoData
    /\ drv = NoDrv
    /\ param_buf = << >>
    /\ pool = NoPool
    /\ frames = NoFrames
    /\ loc = NoLoc
    /\ va_calls = << >>
    /\ callbacks = {}
    /\ n_updates = 0
    /\ stored = << >>
    /\ ub = {}

(***************************************************************************)
(* Parameter initialisation callbacks of Open                              *)
(***************************************************************************)
AdjustData ==
    [ kind |-> "adjust",
      params |-> [ sigma |-> [ i \in 0 .. NUM_ADJUST_MODES - 1 |->
                     [ drv_value |-> 0, drv_range |-> Range(0, 0),
                       is_available |-> FALSE ] ] ],
      num_available_modes |-> 0 ]

BasicFilterData(name) ==
    [ kind |-> "basic",
      sigma |-> [ drv_value |-> 0, drv_range |-> Range(0, 0),
                  p_vlc_range |-> IF name = "denoise"
                                  THEN vlc_denoise_sigma_range
                                  ELSE vlc_sharpen_sigma_range,
                  psz_name |-> IF name = "denoise" THEN "denoise-sigma"
                               ELSE "sharpen-sigma" ],
      filter_type |-> IF name = "denoise" THEN "VAProcFilterNoiseReduction"
                      ELSE "VAProcFilterSharpening" ]

DeintData ==
    [ kind |-> "deint",
      history |-> [ pp_pics |-> << >>, cur |-> 0, num_pics |-> 0, sz |-> 0 ],
      surfaces |-> << >>,
      backward_refs |-> [ off |-> 0, sz |-> 0 ],
      forward_refs |-> [ off |-> 0, sz |-> 0 ] ]

\* The drv_value fields of the filter data: one for each Adjust channel,
\* one for a Basic filter, none for Deinterlace.
DrvValues(pd) ==
    IF pd.kind = "adjust"
    THEN [ i \in 0 .. NUM_ADJUST_MODES - 1 |-> pd.params.sigma[i].drv_value ]
    ELSE IF pd.kind = "basic"
    THEN [ i \in { 0 } |-> pd.sigma.drv_value ]
    ELSE << >>

ZeroEntry == [ type |-> "0", attrib |-> "0", value |-> 0 ]

\* The available channels, in index order.
AvailModes(pd) ==
    SelectSeq([ k \in 1 .. NUM_ADJUST_MODES |-> k - 1 ],
              LAMBDA j : pd.params.sigma[j].is_available)

\* The counter after the out-of-bounds stores of one iteration i >=
\* NUM_ADJUST_MODES: the increment, or whatever the stray store left there.
Smashed(n, smash) == IF smash.kind = "inc" THEN n + 1 ELSE smash.v

\* The loop of lines 501-528, from iteration i on.  q.caps is the array the
\* driver filled (num_caps = Len), q.inherit[i] what var_InheritFloat
\* returns for channel i, q.mem[i] what the read of va_adjust_modes[i] past
\* the end of the table yields.
RECURSIVE OpenAdjust_MatchCaps(_, _, _)
OpenAdjust_MatchCaps(pd, q, i) ==
    IF i >= Len(q.caps) THEN pd
    ELSE
      LET mode == IF i < NUM_ADJUST_MODES THEN va_adjust_modes[i]
                  ELSE q.mem[i]
          js   == { j \in 1 .. Len(q.caps) : q.caps[j].type = mode }
      IN  IF js = {} THEN OpenAdjust_MatchCaps(pd, q, i + 1)
          ELSE IF i >= NUM_ADJUST_MODES
          THEN OpenAdjust_MatchCaps(
                 [ pd EXCEPT !.num_available_modes = Smashed(@, q.smash) ],
                 q, i + 1)
          ELSE
            LET cap       == q.caps[Min(js)]
                clipped   == VLC_CLIP(q.inherit[i],
                                      vlc_adjust_sigma_ranges[i].min_value,
                                      vlc_adjust_sigma_ranges[i].max_value)
                vlc_sigma == adapt_adjust_sigma(adjust_params_names[i],
                                 clipped, vlc_adjust_sigma_ranges[i])
                drv_sigma == GET_DRV_SIGMA(vlc_sigma,
                                 vlc_adjust_sigma_ranges[i], cap.range)
            IN  OpenAdjust_MatchCaps(
                  [ pd EXCEPT !.params.sigma[i] =
                                 [ drv_value |-> drv_sigma,
                                   drv_range |-> cap.range,
                                   is_available |-> TRUE ],
                              !.num_available_modes = @ + 1 ],
                  q, i + 1)

\* Out-of-bounds accesses of that loop: the table is read at every i below
\* num_caps, sigma[i] is written at every i that matches a capability.
OpenAdjust_OutOfBounds(q) ==
    { [ what |-> "read va_adjust_modes", idx |-> i ] :
        i \in NUM_ADJUST_MODES .. Len(q.caps) - 1 }
    \cup
    { [ what |-> "write sigma", idx |-> i ] :
        i \in { k \in NUM_ADJUST_MODES .. Len(q.caps) - 1 :
                  \E j \in 1 .. Len(q.caps) : q.caps[j].type = q.mem[k] } }

OpenAdjust_InitFilterParams(sys, pd, q) ==
    LET query == Call("QueryVideoProcFilterCaps", sys.ctx)
    IN
    IF ~ q.query_ok
    THEN [ ret |-> VLC_EGENERIC, p_data |-> pd, p_va_params |-> << >>,
           num |-> 0, calls |-> << query >>, ub |-> {}, reported |-> {} ]
    ELSE
      LET pd2    == OpenAdjust_MatchCaps(pd, q, 0)
          num    == pd2.num_available_modes
          avail  == AvailModes(pd2)
          tagged == [ k \in 1 .. Len(avail) |->
                        [ type |-> "VAProcFilterColorBalance",
                          attrib |-> va_adjust_modes[avail[k]],
                          value |-> 0 ] ]
          array  == [ k \in 1 .. num |->
                        IF k <= Len(tagged) THEN tagged[k] ELSE ZeroEntry ]
          oob    == OpenAdjust_OutOfBounds(q)
          types  == { q.caps[j].type : j \in 1 .. Len(q.caps) }
      IN  IF ~ q.alloc_ok
          THEN [ ret |-> VLC_ENOMEM, p_data |-> pd2, p_va_params |-> << >>,
                 num |-> num, calls |-> << query >>, ub |-> oob,
                 reported |-> types ]
          ELSE [ ret |-> VLC_SUCCESS, p_data |-> pd2, p_va_params |-> array,
                 num |-> num, calls |-> << query >>,
                 ub |-> oob \cup
                        { [ what |-> "write p_va_params", idx |-> k - 1 ] :
                            k \in num + 1 .. Len(tagged) },
                 reported |-> types ]

OpenBasicFilter_InitFilterParams(sys, pd, q) ==
    LET query == Call("QueryVideoProcFilterCaps", sys.buf)
    IN
    IF ~ q.query_ok \/ q.num_caps = 0
    THEN [ ret |-> VLC_EGENERIC, p_data |-> pd, p_va_params |-> << >>,
           num |-> 0, calls |-> << query >>, ub |-> {}, reported |-> {} ]
    ELSE
      LET vlc_sigma == VLC_CLIP(q.inherit, pd.sigma.p_vlc_range.min_value,
                                pd.sigma.p_vlc_range.max_value)
          drv_sigma == GET_DRV_SIGMA(vlc_sigma, pd.sigma.p_vlc_range,
                                     q.range)
          pd2 == [ pd EXCEPT !.sigma.drv_range = q.range,
                             !.sigma.drv_value = drv_sigma ]
      IN  IF ~ q.alloc_ok
          THEN [ ret |-> VLC_ENOMEM, p_data |-> pd2, p_va_params |-> << >>,
                 num |-> 1, calls |-> << query >>, ub |-> {}, reported |-> {} ]
          ELSE [ ret |-> VLC_SUCCESS, p_data |-> pd2,
                 p_va_params |-> << [ type |-> pd.filter_type,
                                      attrib |-> "0", value |-> 0 ] >>,
                 num |-> 1, calls |-> << query >>, ub |-> {}, reported |-> {} ]

OpenDeinterlace_IsValidType(caps, deint_mode) ==
    \E j \in 1 .. Len(caps) : caps[j] = deint_mode.type

NoString == "(null)"

\* OpenDeinterlace_GetMode without the first loop: the requested name is
\* not looked at.
OpenDeinterlace_GetMode_IgnoreName(deint_mode, caps) ==
    LET valid == { i \in 1 .. Len(deint_modes) :
                     OpenDeinterlace_IsValidType(caps, deint_modes[i]) }
    IN  IF valid # {}
        THEN [ ret |-> VLC_SUCCESS, mode |-> deint_modes[Min(valid)].type,
               fallback |-> deint_mode # NoString /\ deint_mode # "auto" ]
        ELSE [ ret |-> VLC_EGENERIC, mode |-> "0", fallback |-> FALSE ]

\* OpenDeinterlace_GetMode settling on the first entry of deint_modes when
\* the driver supports none of them.
OpenDeinterlace_GetMode_NoFailure(deint_mode, caps) ==
    LET named == { i \in 1 .. Len(deint_modes) :
                     /\ deint_mode = deint_modes[i].name
                     /\ OpenDeinterlace_IsValidType(caps, deint_modes[i]) }
        valid == { i \in 1 .. Len(deint_modes) :
                     OpenDeinterlace_IsValidType(caps, deint_modes[i]) }
    IN  IF deint_mode # NoString /\ deint_mode # "auto" /\ named # {}
        THEN [ ret |-> VLC_SUCCESS, mode |-> deint_modes[Min(named)].type,
               fallback |-> FALSE ]
        ELSE IF valid # {}
        THEN [ ret |-> VLC_SUCCESS, mode |-> deint_modes[Min(valid)].type,
               fallback |-> deint_mode # NoString /\ deint_mode # "auto" ]
        ELSE [ ret |-> VLC_SUCCESS, mode |-> deint_modes[1].type,
               fallback |-> FALSE ]

OpenDeinterlace_GetMode(deint_mode, caps) ==
    LET named == { i \in 1 .. Len(deint_modes) :
                     /\ deint_mode = deint_modes[i].name
                     /\ OpenDeinterlace_IsValidType(caps, deint_modes[i]) }
        valid == { i \in 1 .. Len(deint_modes) :
                     OpenDeinterlace_IsValidType(caps, deint_modes[i]) }
    IN  IF deint_mode # NoString /\ deint_mode # "auto" /\ named # {}
        THEN [ ret |-> VLC_SUCCESS, mode |-> deint_modes[Min(named)].type,
               fallback |-> FALSE ]
        ELSE IF valid # {}
        THEN [ ret |-> VLC_SUCCESS, mode |-> deint_modes[Min(valid)].type,
               fallback |-> deint_mode # NoString /\ deint_mode # "auto" ]
        ELSE [ ret |-> VLC_EGENERIC, mode |-> "0", fallback |-> FALSE ]

OpenDeinterlace_InitFilterParams(sys, pd, q) ==
    LET query == Call("QueryVideoProcFilterCaps", sys.buf)
        got   == OpenDeinterlace_GetMode(q.deint_mode, q.caps)
        types == { q.caps[j] : j \in 1 .. Len(q.caps) }
    IN
    IF ~ q.query_ok
    THEN [ ret |-> VLC_EGENERIC, p_data |-> pd, p_va_params |-> << >>,
           num |-> 0, calls |-> << query >>, ub |-> {}, reported |-> {} ]
    ELSE IF got.ret # VLC_SUCCESS
    THEN [ ret |-> VLC_EGENERIC, p_data |-> pd, p_va_params |-> << >>,
           num |-> 0, calls |-> << query >>, ub |-> {}, reported |-> types ]
    ELSE IF ~ q.alloc_ok
    THEN [ ret |-> VLC_ENOMEM, p_data |-> pd, p_va_params |-> << >>,
           num |-> 1, calls |-> << query >>, ub |-> {}, reported |-> types ]
    ELSE [ ret |-> VLC_SUCCESS, p_data |-> pd,
           p_va_params |-> << [ type |-> "VAProcFilterDeinterlacing",
                                attrib |-> got.mode, value |-> 0 ] >>,
           num |-> 1, calls |-> << query >>, ub |-> {}, reported |-> types ]

Uninit == << "uninit", 0 >>

\* q.fail names the allocation that fails: "none", "calloc" or "malloc".
OpenDeinterlace_InitHistory(pd, pipeline_caps, fail) ==
    LET sz_backward_refs == pipeline_caps.num_backward_references
        sz_forward_refs  == pipeline_caps.num_forward_references
        history_sz       == sz_backward_refs + 1 + sz_forward_refs
        pd1 == [ pd EXCEPT !.history =
                   [ pp_pics |-> [ k \in 0 .. history_sz - 1 |-> NULL ],
                     cur |-> sz_forward_refs, num_pics |-> 0,
                     sz |-> history_sz ] ]
        pd2 == IF history_sz - 1 # 0
               THEN [ pd1 EXCEPT !.surfaces =
                        [ k \in 0 .. history_sz - 2 |-> Uninit ] ]
               ELSE pd1
    IN  IF fail = "calloc" THEN [ ret |-> VLC_ENOMEM, p_data |-> pd ]
        ELSE IF fail = "malloc" /\ history_sz - 1 # 0
        THEN [ ret |-> VLC_ENOMEM, p_data |-> pd1 ]
        ELSE [ ret |-> VLC_SUCCESS,
               p_data |-> [ pd2 EXCEPT
                   !.backward_refs = [ off |-> sz_forward_refs,
                                       sz |-> sz_backward_refs ],
                   !.forward_refs = [ off |-> 0, sz |-> sz_forward_refs ] ] ]

(***************************************************************************)
(* Open, one statement per step                                            *)
(***************************************************************************)
OpenReturn(code) ==
    /\ loc' = [ loc EXCEPT !.ret = code ]
    /\ pc' = "Open_ret"

\* The output chroma of the filter and whether video_format_IsSimilar holds
\* of its output and input formats, as the owner of the filter has set them.
Formats ==
    [ i_chroma : { "VLC_CODEC_VAAPI_420", "VLC_CODEC_VAAPI_420_10BPP",
                   "VLC_CODEC_I420" },
      similar : BOOLEAN ]

OpenAdjust ==
    /\ pc = "unloaded"
    /\ psz_name' = "adjust"
    /\ va_calls' = << >>
    /\ \E ok \in BOOLEAN :
         IF ok THEN /\ p_data' = AdjustData
                    /\ pc' = "Open"
                    /\ \E fmt \in Formats :
                         loc' = [ NoLoc EXCEPT !.fmt = fmt ]
               ELSE /\ p_data' = NoData
                    /\ pc' = "open_failed"
                    /\ loc' = [ NoLoc EXCEPT !.ret = VLC_ENOMEM ]
    /\ UNCHANGED << filter_sys, drv, param_buf, pool, frames, callbacks, ub, n_updates, stored >>

OpenBasicFilter ==
    /\ pc = "unloaded"
    /\ va_calls' = << >>
    /\ \E name \in { "denoise", "sharpen" }, ok \in BOOLEAN :
         /\ psz_name' = name
         /\ IF ok THEN /\ p_data' = BasicFilterData(name)
                       /\ pc' = "Open"
                       /\ \E fmt \in Formats :
                            loc' = [ NoLoc EXCEPT !.fmt = fmt ]
                  ELSE /\ p_data' = NoData
                       /\ pc' = "open_failed"
                       /\ loc' = [ NoLoc EXCEPT !.ret = VLC_ENOMEM ]
    /\ UNCHANGED << filter_sys, drv, param_buf, pool, frames, callbacks, ub, n_updates, stored >>

OpenDeinterlace ==
    /\ pc = "unloaded"
    /\ psz_name' = "deinterlace"
    /\ va_calls' = << >>
    /\ \E ok \in BOOLEAN :
         IF ok THEN /\ p_data' = DeintData
                    /\ pc' = "Open"
                    /\ \E fmt \in Formats :
                         loc' = [ NoLoc EXCEPT !.fmt = fmt ]
               ELSE /\ p_data' = NoData
                    /\ pc' = "open_failed"
                    /\ loc' = [ NoLoc EXCEPT !.ret = VLC_ENOMEM ]
    /\ UNCHANGED << filter_sys, drv, param_buf, pool, frames, callbacks, ub, n_updates, stored >>

\* The condition of lines 288-289 with its second operand left out.
Open_FormatRejected_ChromaOnly(fmt) ==
    fmt.i_chroma # "VLC_CODEC_VAAPI_420"

\* Lines 288-289, the condition of the first return of Open.
Open_FormatRejected(fmt) ==
    fmt.i_chroma # "VLC_CODEC_VAAPI_420" \/ ~ fmt.similar

\* Lines 288-301: the format check, then calloc and the three sentinels.
Open_CheckFormat ==
    /\ pc = "Open"
    /\ \E alloc_ok \in BOOLEAN :
         IF Open_FormatRejected(loc.fmt)
         THEN /\ OpenReturn(VLC_EGENERIC)
              /\ UNCHANGED filter_sys
         ELSE IF ~ alloc_ok
         THEN /\ OpenReturn(VLC_ENOMEM)
              /\ UNCHANGED filter_sys
         ELSE /\ filter_sys' = [ NoSys EXCEPT !.alloc = TRUE,
                                              !.conf = VA_INVALID_ID,
                                              !.ctx = VA_INVALID_ID,
                                              !.buf = VA_INVALID_ID ]
              /\ pc' = "Open_HoldInstance"
              /\ loc' = [ loc EXCEPT !.fmt = NoFmt ]
    /\ UNCHANGED << psz_name, p_data, drv, param_buf, pool, frames, va_calls,
                    callbacks, ub, n_updates, stored >>

Open_HoldInstance ==
    /\ pc = "Open_HoldInstance"
    /\ va_calls' = Append(va_calls, Call("FilterHoldInstance", NULL))
    /\ \E ok \in BOOLEAN :
         IF ok THEN /\ filter_sys' = [ filter_sys EXCEPT !.inst = TRUE ]
                    /\ drv' = [ drv EXCEPT !.inst_refs = @ + 1 ]
                    /\ pc' = "Open_PoolNew"
               ELSE /\ pc' = "Open_error"
                    /\ UNCHANGED << filter_sys, drv >>
    /\ UNCHANGED << psz_name, p_data, param_buf, pool, frames, loc,
                    callbacks, ub, n_updates, stored >>

FullPool == [ NoPool EXCEPT !.free = 1 .. DEST_PICS_POOL_SZ ]

Open_PoolNew ==
    /\ pc = "Open_PoolNew"
    /\ va_calls' = Append(va_calls, Call("PoolNew", NULL))
    /\ \E ok \in BOOLEAN :
         IF ok THEN /\ filter_sys' = [ filter_sys EXCEPT !.dest_pics = TRUE ]
                    /\ drv' = [ drv EXCEPT !.pool = TRUE ]
                    /\ pool' = FullPool
                    /\ pc' = "Open_CreateConfig"
               ELSE /\ pc' = "Open_error"
                    /\ UNCHANGED << filter_sys, drv, pool >>
    /\ UNCHANGED << psz_name, p_data, param_buf, frames, loc, callbacks, ub, n_updates, stored >>

Open_CreateConfig ==
    /\ pc = "Open_CreateConfig"
    /\ va_calls' = Append(va_calls, Call("CreateConfigChecked", NULL))
    /\ \E ok \in BOOLEAN :
         IF ok THEN LET id == FreshId(drv.configs)
                    IN  /\ filter_sys' = [ filter_sys EXCEPT !.conf = id ]
                        /\ drv' = [ drv EXCEPT !.configs = @ \cup { id } ]
                        /\ pc' = "Open_CreateContext"
               ELSE /\ pc' = "Open_error"
                    /\ UNCHANGED << filter_sys, drv >>
    /\ UNCHANGED << psz_name, p_data, param_buf, pool, frames, loc,
                    callbacks, ub, n_updates, stored >>

Open_CreateContext ==
    /\ pc = "Open_CreateContext"
    /\ va_calls' = Append(va_calls, Call("CreateContext", filter_sys.conf))
    /\ \E ok \in BOOLEAN :
         IF ok THEN LET id == FreshId(drv.contexts)
                    IN  /\ filter_sys' = [ filter_sys EXCEPT !.ctx = id ]
                        /\ drv' = [ drv EXCEPT !.contexts = @ \cup { id } ]
                        /\ pc' = "Open_IsVideoProcFilterAvailable"
               ELSE /\ pc' = "Open_error"
                    /\ UNCHANGED << filter_sys, drv >>
    /\ UNCHANGED << psz_name, p_data, param_buf, pool, frames, loc,
                    callbacks, ub, n_updates, stored >>

Open_IsVideoProcFilterAvailable ==
    /\ pc = "Open_IsVideoProcFilterAvailable"
    /\ va_calls' = Append(va_calls,
                          Call("IsVideoProcFilterAvailable", filter_sys.ctx))
    /\ \E available \in BOOLEAN :
         pc' = IF available THEN "Open_InitFilterParams" ELSE "Open_error"
    /\ UNCHANGED << psz_name, filter_sys, p_data, drv, param_buf, pool,
                    frames, loc, callbacks, ub, n_updates, stored >>

\* What pf_init_filter_params can meet, for each filter: hw bounds what the
\* hardware reports and what the configuration holds.
InitFilterParamsResults(hw) ==
    IF psz_name = "adjust"
    THEN { OpenAdjust_InitFilterParams(filter_sys, p_data,
             [ query_ok |-> qo, alloc_ok |-> ao, caps |-> c,
               inherit |-> [ i \in 0 .. NUM_ADJUST_MODES - 1 |-> v ],
               mem |-> [ i \in NUM_ADJUST_MODES .. VAProcColorBalanceCount - 1
                           |-> m ],
               smash |-> s ]) :
             qo \in BOOLEAN, ao \in BOOLEAN, c \in hw.color_caps,
             v \in hw.inherit, m \in hw.mem, s \in hw.smash }
    ELSE IF psz_name \in { "denoise", "sharpen" }
    THEN { OpenBasicFilter_InitFilterParams(filter_sys, p_data,
             [ query_ok |-> qo, alloc_ok |-> ao, num_caps |-> n,
               range |-> r, inherit |-> v ]) :
             qo \in BOOLEAN, ao \in BOOLEAN, n \in 0 .. 1,
             r \in hw.basic_ranges, v \in hw.inherit }
    ELSE { OpenDeinterlace_InitFilterParams(filter_sys, p_data,
             [ query_ok |-> qo, alloc_ok |-> ao, caps |-> c,
               deint_mode |-> d ]) :
             qo \in BOOLEAN, ao \in BOOLEAN, c \in hw.deint_caps,
             d \in hw.deint_mode }

Open_InitFilterParams(hw) ==
    /\ pc = "Open_InitFilterParams"
    /\ \E r \in InitFilterParamsResults(hw) :
         /\ p_data' = r.p_data
         /\ va_calls' = va_calls \o r.calls
         /\ ub' = ub \cup r.ub
         /\ drv' = [ drv EXCEPT !.reported = r.reported ]
         /\ stored' = IF r.ret = VLC_SUCCESS THEN DrvValues(r.p_data)
                       ELSE stored
         /\ loc' = [ loc EXCEPT !.p_va_params = r.p_va_params,
                                !.i_num_params = r.num ]
         /\ pc' = IF r.ret = VLC_SUCCESS THEN "Open_CreateBuffer"
                  ELSE "Open_error"
    /\ UNCHANGED << psz_name, filter_sys, param_buf, pool, frames,
                    callbacks, n_updates >>

\* Lines 346-353: the buffer takes a copy of the blob, which is then freed.
Open_CreateBuffer ==
    /\ pc = "Open_CreateBuffer"
    /\ va_calls' = Append(va_calls, Call("CreateBuffer", filter_sys.ctx))
    /\ loc' = [ loc EXCEPT !.p_va_params = << >> ]
    /\ \E ok \in BOOLEAN :
         IF ok THEN LET id == FreshId(drv.buffers)
                    IN  /\ filter_sys' = [ filter_sys EXCEPT !.buf = id ]
                        /\ drv' = [ drv EXCEPT !.buffers = @ \cup { id } ]
                        /\ param_buf' = loc.p_va_params
                        /\ pc' = "Open_QueryVideoProcPipelineCaps"
               ELSE /\ pc' = "Open_error"
                    /\ UNCHANGED << filter_sys, drv, param_buf >>
    /\ UNCHANGED << psz_name, p_data, pool, frames, callbacks, ub, n_updates, stored >>

\* Lines 355-363.
Open_QueryVideoProcPipelineCaps(hw) ==
    /\ pc = "Open_QueryVideoProcPipelineCaps"
    /\ va_calls' = Append(va_calls,
                          Call("QueryVideoProcPipelineCaps", filter_sys.ctx))
    /\ \E ok \in BOOLEAN, b \in hw.refs, f \in hw.refs, fast \in hw.fast :
         IF ok THEN /\ loc' = [ loc EXCEPT !.pipeline_caps =
                                  [ num_backward_references |-> b,
                                    num_forward_references |-> f,
                                    fast |-> fast ] ]
                    /\ filter_sys' = [ filter_sys EXCEPT
                                         !.b_pipeline_fast = fast ]
                    /\ pc' = "Open_UsePipelineCaps"
               ELSE /\ pc' = "Open_error"
                    /\ UNCHANGED << filter_sys, loc >>
    /\ UNCHANGED << psz_name, p_data, drv, param_buf, pool, frames,
                    callbacks, ub, n_updates, stored >>

\* Lines 365-369: only Deinterlace passes pf_use_pipeline_caps.
Open_UsePipelineCaps ==
    /\ pc = "Open_UsePipelineCaps"
    /\ IF psz_name = "deinterlace"
       THEN \E fail \in { "none", "calloc", "malloc" } :
              LET r == OpenDeinterlace_InitHistory(p_data, loc.pipeline_caps,
                                                   fail)
              IN  /\ p_data' = r.p_data
                  /\ IF r.ret = VLC_SUCCESS
                     THEN OpenReturn(VLC_SUCCESS)
                     ELSE /\ pc' = "Open_error"
                          /\ UNCHANGED loc
       ELSE /\ OpenReturn(VLC_SUCCESS)
            /\ UNCHANGED p_data
    /\ UNCHANGED << psz_name, filter_sys, drv, param_buf, pool, frames,
                    va_calls, callbacks, ub, n_updates, stored >>

\* Lines 371-384, the error label.
Open_error ==
    /\ pc = "Open_error"
    /\ LET c1 == IF filter_sys.buf # VA_INVALID_ID
                 THEN << Call("DestroyBuffer", filter_sys.buf) >> ELSE << >>
           c2 == IF filter_sys.ctx # VA_INVALID_ID
                 THEN << Call("DestroyContext", filter_sys.ctx) >> ELSE << >>
           c3 == IF filter_sys.conf # VA_INVALID_ID
                 THEN << Call("DestroyConfig", filter_sys.conf) >> ELSE << >>
           c4 == IF filter_sys.inst
                 THEN << Call("ReleaseInstance", NULL) >> ELSE << >>
       IN  /\ va_calls' = va_calls \o c1 \o c2 \o c3 \o c4
           /\ drv' = [ drv EXCEPT
                 !.buffers = @ \ { filter_sys.buf },
                 !.contexts = @ \ { filter_sys.ctx },
                 !.configs = @ \ { filter_sys.conf },
                 !.inst_refs = IF filter_sys.inst THEN @ - 1 ELSE @ ]
    /\ filter_sys' = NoSys
    /\ param_buf' = IF filter_sys.buf # VA_INVALID_ID THEN << >>
                    ELSE param_buf
    /\ OpenReturn(VLC_EGENERIC)
    /\ UNCHANGED << psz_name, p_data, pool, frames, callbacks, ub, n_updates, stored >>

\* Lines 565-580.
OpenAdjust_Return ==
    /\ pc = "Open_ret"
    /\ psz_name = "adjust"
    /\ IF loc.ret = VLC_SUCCESS
       THEN /\ callbacks' = { adjust_params_names[i] :
                                i \in 0 .. NUM_ADJUST_MODES - 1 }
            /\ pc' = "idle"
            /\ UNCHANGED p_data
       ELSE /\ p_data' = NoData
            /\ pc' = "open_failed"
            /\ UNCHANGED callbacks
    /\ UNCHANGED << psz_name, filter_sys, drv, param_buf, pool, frames, loc,
                    va_calls, ub, n_updates, stored >>

\* Lines 701-716.
OpenBasicFilter_Return ==
    /\ pc = "Open_ret"
    /\ psz_name \in { "denoise", "sharpen" }
    /\ IF loc.ret = VLC_SUCCESS
       THEN /\ callbacks' = { p_data.sigma.psz_name }
            /\ pc' = "idle"
            /\ UNCHANGED p_data
       ELSE /\ p_data' = NoData
            /\ pc' = "open_failed"
            /\ UNCHANGED callbacks
    /\ UNCHANGED << psz_name, filter_sys, drv, param_buf, pool, frames, loc,
                    va_calls, ub, n_updates, stored >>

\* Lines 962-976.
OpenDeinterlace_Return ==
    /\ pc = "Open_ret"
    /\ psz_name = "deinterlace"
    /\ IF loc.ret = VLC_SUCCESS
       THEN /\ pc' = "idle"
            /\ UNCHANGED p_data
       ELSE /\ p_data' = NoData
            /\ pc' = "open_failed"
    /\ UNCHANGED << psz_name, filter_sys, drv, param_buf, pool, frames, loc,
                    va_calls, callbacks, ub, n_updates, stored >>

(***************************************************************************)
(* The frame executor Filter, one statement per step                       *)
(***************************************************************************)
vlc_vaapi_PicGetSurface(kind, pic) == << kind, pic >>

\* picture_Release leaving the reference where it is.
picture_Release_Held(refs, pic) == refs

picture_Release(refs, pic) == [ refs EXCEPT ![pic] = @ - 1 ]

NoProps == [ from |-> NULL, b_progressive |-> FALSE ]

\* PoolRelease with the release forgotten.
PoolRelease_Kept(pl, d) == pl

\* A picture of the pool is free again once its last reference is gone; what
\* it held is dead from then on.
PoolRelease(pl, d) ==
    LET refs == picture_Release(pl.refs, d)
    IN  [ pl EXCEPT !.refs = refs,
                    !.free = IF refs[d] = 0 THEN @ \cup { d } ELSE @,
                    !.props[d] = IF refs[d] = 0 THEN NoProps ELSE @ ]

FilterStep(next) ==
    \E ok \in BOOLEAN : pc' = IF ok THEN next ELSE "Filter_error"

\* A call on a buffer fails when the driver has no such buffer.
FilterStepOn(buf, next) ==
    \E ok \in BOOLEAN :
       pc' = IF ok /\ buf \in drv.buffers THEN next ELSE "Filter_error"

\* picture_pool_Wait that hands out a picture even when none is free.
picture_pool_Wait_Always(pl) == IF pl.free = {} THEN 1 ELSE Min(pl.free)

\* The pool hands out its first free picture, or nothing.
picture_pool_Wait(pl) == IF pl.free = {} THEN NULL ELSE Min(pl.free)

\* Lines 200-206: picture_pool_Wait, then the properties of src are copied.
Filter_PoolWait ==
    /\ pc = "Filter"
    /\ IF picture_pool_Wait(pool) = NULL
       THEN /\ loc' = [ loc EXCEPT !.called = TRUE, !.dest = NULL,
                                   !.out = NULL ]
            /\ pc' = "ret"
            /\ UNCHANGED pool
       ELSE LET d == picture_pool_Wait(pool)
            IN
              /\ loc' = [ loc EXCEPT !.called = TRUE, !.dest = d ]
              /\ pool' = [ pool EXCEPT
                             !.free = @ \ { d },
                             !.refs[d] = 1,
                             !.props[d] = [ from |-> loc.src,
                                            b_progressive |-> FALSE ] ]
              /\ pc' = "Filter_MapBuffer"
    /\ UNCHANGED << psz_name, filter_sys, p_data, drv, param_buf, frames,
                    va_calls, callbacks, ub, n_updates, stored >>

\* Lines 210-215.
Filter_MapBuffer ==
    /\ pc = "Filter_MapBuffer"
    /\ va_calls' = Append(va_calls, Call("MapBuffer", filter_sys.buf))
    /\ FilterStepOn(filter_sys.buf,
                    IF psz_name = "adjust" THEN "Adjust_UpdateVAFilterParams"
                    ELSE IF psz_name = "deinterlace" THEN "Filter_UnmapBuffer"
                    ELSE "BasicFilter_UpdateVAFilterParams")
    /\ loc' = [ loc EXCEPT !.i = 0, !.j = 0 ]
    /\ UNCHANGED << psz_name, filter_sys, p_data, drv, param_buf, pool,
                    frames, callbacks, ub, n_updates, stored >>

\* The load of line 470 reading the wrong field of the channel.
vlc_atomic_load_float_WrongField(pd, j) ==
    pd.params.sigma[j].drv_range.min_value

\* Line 470: the load of the drv_value of channel j.
vlc_atomic_load_float(pd, j) == pd.params.sigma[j].drv_value

\* Lines 466-470, one iteration of the loop: the load of a channel is atomic,
\* the loop is not.
Adjust_UpdateVAFilterParams ==
    /\ pc = "Adjust_UpdateVAFilterParams"
    /\ IF loc.j >= NUM_ADJUST_MODES
       THEN /\ pc' = "Filter_UnmapBuffer"
            /\ va_calls' = Append(va_calls,
                                  Call("pf_update_va_filter_params", loc.i))
            /\ UNCHANGED << loc, param_buf, ub >>
       ELSE /\ pc' = pc
            /\ UNCHANGED va_calls
            /\ IF p_data.params.sigma[loc.j].is_available
               THEN /\ loc' = [ loc EXCEPT !.i = @ + 1, !.j = @ + 1 ]
                    /\ IF loc.i + 1 \in DOMAIN param_buf
                       THEN /\ param_buf' =
                                 [ param_buf EXCEPT ![loc.i + 1].value =
                                     vlc_atomic_load_float(p_data, loc.j) ]
                            /\ UNCHANGED ub
                       ELSE /\ ub' = ub \cup { [ what |-> "write p_va_params",
                                                 idx |-> loc.i ] }
                            /\ UNCHANGED param_buf
               ELSE /\ loc' = [ loc EXCEPT !.j = @ + 1 ]
                    /\ UNCHANGED << param_buf, ub >>
    /\ UNCHANGED << psz_name, filter_sys, p_data, drv, pool, frames,
                    callbacks, n_updates, stored >>

\* Lines 609-610.
BasicFilter_UpdateVAFilterParams ==
    /\ pc = "BasicFilter_UpdateVAFilterParams"
    /\ param_buf' = [ param_buf EXCEPT ![1].value = p_data.sigma.drv_value ]
    /\ loc' = [ loc EXCEPT !.i = 1 ]
    /\ va_calls' = Append(va_calls, Call("pf_update_va_filter_params", 1))
    /\ pc' = "Filter_UnmapBuffer"
    /\ UNCHANGED << psz_name, filter_sys, p_data, drv, pool, frames,
                    callbacks, ub, n_updates, stored >>

\* Lines 217-219.
Filter_UnmapBuffer ==
    /\ pc = "Filter_UnmapBuffer"
    /\ va_calls' = Append(va_calls, Call("UnmapBuffer", filter_sys.buf))
    /\ FilterStepOn(filter_sys.buf, "Filter_BeginPicture")
    /\ UNCHANGED << psz_name, filter_sys, p_data, drv, param_buf, pool,
                    frames, loc, callbacks, ub, n_updates, stored >>

\* Lines 221-224.
Filter_BeginPicture ==
    /\ pc = "Filter_BeginPicture"
    /\ va_calls' = Append(va_calls,
                          CallOn("BeginPicture", filter_sys.ctx,
                                 vlc_vaapi_PicGetSurface("dest", loc.dest)))
    /\ \E ok \in BOOLEAN :
         IF ok THEN /\ drv' = [ drv EXCEPT !.in_picture = TRUE ]
                    /\ pc' = IF psz_name = "deinterlace"
                             THEN "Deinterlace_UpdateReferenceFrames"
                             ELSE "Filter_CreateBuffer"
               ELSE /\ pc' = "Filter_error"
                    /\ UNCHANGED drv
    /\ UNCHANGED << psz_name, filter_sys, p_data, param_buf, pool, frames,
                    loc, callbacks, ub, n_updates, stored >>

\* UpdateReferenceFrames with the backward index starting at the current
\* picture instead of the one after it.
UpdateReferenceFrames_OffByOne(pd) ==
    LET back == [ k \in DOMAIN pd.surfaces |->
                    IF /\ k >= pd.backward_refs.off
                       /\ k < pd.backward_refs.off + pd.backward_refs.sz
                    THEN vlc_vaapi_PicGetSurface("src",
                           pd.history.pp_pics[pd.forward_refs.sz
                                              + (k - pd.backward_refs.off)])
                    ELSE pd.surfaces[k] ]
        forw == [ k \in DOMAIN pd.surfaces |->
                    IF /\ k >= pd.forward_refs.off
                       /\ k < pd.forward_refs.off + pd.forward_refs.sz
                    THEN vlc_vaapi_PicGetSurface("src",
                           pd.history.pp_pics[pd.forward_refs.sz - 1
                                              - (k - pd.forward_refs.off)])
                    ELSE back[k] ]
    IN  [ pd EXCEPT !.surfaces = forw ]

\* Lines 756-772: the backward references first, then the forward ones.
UpdateReferenceFrames(pd) ==
    LET back == [ k \in DOMAIN pd.surfaces |->
                    IF /\ k >= pd.backward_refs.off
                       /\ k < pd.backward_refs.off + pd.backward_refs.sz
                    THEN vlc_vaapi_PicGetSurface("src",
                           pd.history.pp_pics[pd.forward_refs.sz + 1
                                              + (k - pd.backward_refs.off)])
                    ELSE pd.surfaces[k] ]
        forw == [ k \in DOMAIN pd.surfaces |->
                    IF /\ k >= pd.forward_refs.off
                       /\ k < pd.forward_refs.off + pd.forward_refs.sz
                    THEN vlc_vaapi_PicGetSurface("src",
                           pd.history.pp_pics[pd.forward_refs.sz - 1
                                              - (k - pd.forward_refs.off)])
                    ELSE back[k] ]
    IN  [ pd EXCEPT !.surfaces = forw ]

Deinterlace_UpdateReferenceFrames ==
    /\ pc = "Deinterlace_UpdateReferenceFrames"
    /\ p_data' = UpdateReferenceFrames(p_data)
    /\ va_calls' = Append(va_calls, Call("pf_prepare_render_surface", NULL))
    /\ pc' = "Filter_CreateBuffer"
    /\ UNCHANGED << psz_name, filter_sys, drv, param_buf, pool, frames, loc,
                    callbacks, ub, n_updates, stored >>

\* Lines 229-238: the declaration of pipeline_buf with its initializer is
\* reached here, after the first three goto error.
Filter_CreateBuffer ==
    /\ pc = "Filter_CreateBuffer"
    /\ va_calls' = Append(va_calls, Call("CreateBuffer", filter_sys.ctx))
    /\ \E ok \in BOOLEAN :
         IF ok THEN LET id == FreshId(drv.buffers)
                    IN  /\ loc' = [ loc EXCEPT !.pipeline_buf = id,
                                               !.pipeline_buf_init = TRUE ]
                        /\ drv' = [ drv EXCEPT !.buffers = @ \cup { id } ]
                        /\ pc' = "Filter_MapPipeline"
               ELSE /\ pc' = "Filter_error"
                    /\ loc' = [ loc EXCEPT !.pipeline_buf = VA_INVALID_ID,
                                           !.pipeline_buf_init = TRUE ]
                    /\ UNCHANGED drv
    /\ UNCHANGED << psz_name, filter_sys, p_data, param_buf, pool, frames,
                    callbacks, ub, n_updates, stored >>

\* Deinterlace_UpdatePipelineParams taking the field order of the newest
\* picture of the window instead of that of pp_cur_pic.
Deinterlace_UpdatePipelineParams_Newest(pd, tff, pipeline_param) ==
    [ pipeline_param EXCEPT
        !.filter_flags =
            IF tff[pd.history.pp_pics[pd.history.num_pics - 1]] THEN "0"
            ELSE "VA_DEINTERLACING_BOTTOM_FIELD_FIRST",
        !.backward_references =
            [ k \in 0 .. pd.backward_refs.sz - 1 |->
                pd.surfaces[pd.backward_refs.off + k] ],
        !.forward_references =
            [ k \in 0 .. pd.forward_refs.sz - 1 |->
                pd.surfaces[pd.forward_refs.off + k] ],
        !.num_backward_references = pd.backward_refs.sz,
        !.num_forward_references = pd.forward_refs.sz ]

\* Lines 781-788.
Deinterlace_UpdatePipelineParams(pd, tff, pipeline_param) ==
    [ pipeline_param EXCEPT
        !.filter_flags =
            IF tff[pd.history.pp_pics[pd.history.cur]] THEN "0"
            ELSE "VA_DEINTERLACING_BOTTOM_FIELD_FIRST",
        !.backward_references =
            [ k \in 0 .. pd.backward_refs.sz - 1 |->
                pd.surfaces[pd.backward_refs.off + k] ],
        !.forward_references =
            [ k \in 0 .. pd.forward_refs.sz - 1 |->
                pd.surfaces[pd.forward_refs.off + k] ],
        !.num_backward_references = pd.backward_refs.sz,
        !.num_forward_references = pd.forward_refs.sz ]

\* Lines 244-251.
PipelineParams ==
    LET zero == [ set |-> TRUE, surface |-> << "0", 0 >>,
                  filters |-> VA_INVALID_ID, num_filters |-> 0,
                  pipeline_flags |-> "0", filter_flags |-> "0",
                  backward_references |-> << >>,
                  forward_references |-> << >>,
                  num_backward_references |-> 0,
                  num_forward_references |-> 0 ]
        base == [ zero EXCEPT
                    !.surface = vlc_vaapi_PicGetSurface("src", loc.src),
                    !.filters = filter_sys.buf,
                    !.num_filters = 1,
                    !.pipeline_flags = IF filter_sys.b_pipeline_fast
                                       THEN "VA_PROC_PIPELINE_FAST" ELSE "0" ]
    IN  IF psz_name = "deinterlace"
        THEN Deinterlace_UpdatePipelineParams(p_data, frames.tff, base)
        ELSE base

\* Lines 240-251: the mapped pipeline buffer is filled in place, and
\* Deinterlace has its pf_update_pipeline_params run on it.
Filter_MapPipeline ==
    /\ pc = "Filter_MapPipeline"
    /\ \E ok \in BOOLEAN :
         LET mapped == Append(va_calls, Call("MapBuffer", loc.pipeline_buf))
         IN
         IF ok THEN /\ loc' = [ loc EXCEPT !.pipeline_params = PipelineParams ]
                    /\ va_calls' =
                         IF psz_name = "deinterlace"
                         THEN Append(mapped,
                                     Call("pf_update_pipeline_params", NULL))
                         ELSE mapped
                    /\ pc' = "Filter_UnmapPipeline"
               ELSE /\ pc' = "Filter_error"
                    /\ va_calls' = mapped
                    /\ UNCHANGED loc
    /\ UNCHANGED << psz_name, filter_sys, p_data, drv, param_buf, pool,
                    frames, callbacks, ub, n_updates, stored >>

\* Filter going from the filled pipeline buffer to the rendering without
\* the call of lines 253-255.
Filter_UnmapPipeline_Skipped ==
    /\ pc = "Filter_UnmapPipeline"
    /\ pc' = "Filter_RenderPicture"
    /\ UNCHANGED << psz_name, filter_sys, p_data, drv, param_buf, pool,
                    frames, loc, va_calls, callbacks, ub, n_updates, stored >>

\* Lines 253-255.
Filter_UnmapPipeline ==
    /\ pc = "Filter_UnmapPipeline"
    /\ va_calls' = Append(va_calls, Call("UnmapBuffer", loc.pipeline_buf))
    /\ FilterStep("Filter_RenderPicture")
    /\ UNCHANGED << psz_name, filter_sys, p_data, drv, param_buf, pool,
                    frames, loc, callbacks, ub, n_updates, stored >>

\* Lines 257-260.  The buffer stays live after the call: the error label
\* destroys it when the later EndPicture fails.
Filter_RenderPicture ==
    /\ pc = "Filter_RenderPicture"
    /\ va_calls' = Append(va_calls, Call("RenderPicture", loc.pipeline_buf))
    /\ FilterStep("Filter_EndPicture")
    /\ UNCHANGED << psz_name, filter_sys, p_data, drv, param_buf, pool,
                    frames, loc, callbacks, ub, n_updates, stored >>

\* Lines 262-266.
Filter_EndPicture ==
    /\ pc = "Filter_EndPicture"
    /\ va_calls' = Append(va_calls, Call("EndPicture", filter_sys.ctx))
    /\ \E ok \in BOOLEAN :
         IF ok THEN /\ drv' = [ drv EXCEPT !.in_picture = FALSE ]
                    /\ loc' = [ loc EXCEPT !.out = loc.dest ]
                    /\ pc' = "ret"
               ELSE /\ pc' = "Filter_error"
                    /\ UNCHANGED << drv, loc >>
    /\ UNCHANGED << psz_name, filter_sys, p_data, param_buf, pool, frames,
                    callbacks, ub, n_updates, stored >>

\* What the read of pipeline_buf at line 269 can yield.  A goto error taken
\* before line 229 has jumped over the initializer and the value is
\* indeterminate: the sentinel, the identifier of a live buffer, or one that
\* names no buffer (0).
Filter_error_pipeline_buf(l, d) ==
    IF l.pipeline_buf_init THEN { l.pipeline_buf }
    ELSE { VA_INVALID_ID, 0 } \cup d.buffers

\* Lines 268-274, the error label.
Filter_error ==
    /\ pc = "Filter_error"
    /\ \E pipeline_buf \in Filter_error_pipeline_buf(loc, drv) :
         /\ IF pipeline_buf # VA_INVALID_ID
            THEN /\ va_calls' = Append(va_calls,
                                       Call("DestroyBuffer", pipeline_buf))
                 /\ drv' = [ drv EXCEPT !.buffers = @ \ { pipeline_buf } ]
            ELSE UNCHANGED << va_calls, drv >>
         /\ param_buf' = IF pipeline_buf = filter_sys.buf THEN << >>
                         ELSE param_buf
         /\ loc' = [ loc EXCEPT !.out = NULL, !.pipeline_buf = pipeline_buf ]
    /\ pool' = IF loc.dest # NULL THEN PoolRelease(pool, loc.dest) ELSE pool
    /\ pc' = "ret"
    /\ UNCHANGED << psz_name, filter_sys, p_data, frames,
                    callbacks, ub, n_updates, stored >>

(***************************************************************************)
(* The filter functions                                                    *)
(***************************************************************************)
\* The next source picture the upstream hands to the filter.
Submit(tff) ==
    [ frames EXCEPT !.n = @ + 1, !.refs[frames.n + 1] = 1,
                    !.tff[frames.n + 1] = tff ]

\* Lines 476-477: Adjust calls Filter.
Adjust ==
    /\ pc = "idle"
    /\ psz_name = "adjust"
    /\ frames.n < MaxAdjustFrames
    /\ frames' = Submit(FALSE)
    /\ loc' = [ NoLoc EXCEPT !.src = frames.n + 1 ]
    /\ va_calls' = << >>
    /\ pc' = "Filter"
    /\ UNCHANGED << psz_name, filter_sys, p_data, drv, param_buf, pool,
                    callbacks, ub, n_updates, stored >>

\* Lines 478-479: the source picture is released, the result returned.
Adjust_Return ==
    /\ pc = "ret"
    /\ psz_name = "adjust"
    /\ frames' = [ frames EXCEPT !.refs = picture_Release(@, loc.src) ]
    /\ loc' = NoLoc
    /\ va_calls' = << >>
    /\ pc' = "idle"
    /\ UNCHANGED << psz_name, filter_sys, p_data, drv, param_buf, pool,
                    callbacks, ub, n_updates, stored >>

\* Lines 616-617.
BasicFilter ==
    /\ pc = "idle"
    /\ psz_name \in { "denoise", "sharpen" }
    /\ frames.n < MaxFrames
    /\ frames' = Submit(FALSE)
    /\ loc' = [ NoLoc EXCEPT !.src = frames.n + 1 ]
    /\ va_calls' = << >>
    /\ pc' = "Filter"
    /\ UNCHANGED << psz_name, filter_sys, p_data, drv, param_buf, pool,
                    callbacks, ub, n_updates, stored >>

\* Lines 618-619.
BasicFilter_Return ==
    /\ pc = "ret"
    /\ psz_name \in { "denoise", "sharpen" }
    /\ frames' = [ frames EXCEPT !.refs = picture_Release(@, loc.src) ]
    /\ loc' = NoLoc
    /\ va_calls' = << >>
    /\ pc' = "idle"
    /\ UNCHANGED << psz_name, filter_sys, p_data, drv, param_buf, pool,
                    callbacks, ub, n_updates, stored >>

\* Deinterlace_UpdateHistory with the release of the evicted picture
\* forgotten.
Deinterlace_UpdateHistory_Leak(h, src) ==
    LET full  == h.num_pics = h.sz
        n1    == IF full THEN h.num_pics - 1 ELSE h.num_pics
        moved == IF full
                 THEN [ k \in DOMAIN h.pp_pics |->
                          IF k < n1 THEN h.pp_pics[k + 1] ELSE h.pp_pics[k] ]
                 ELSE h.pp_pics
        pics  == [ moved EXCEPT ![n1] = src ]
    IN  [ history  |-> [ h EXCEPT !.pp_pics = pics, !.num_pics = n1 + 1 ],
          released |-> << >>,
          cur_pic  |-> pics[h.cur] ]

\* Deinterlace_UpdateHistory returning the picture it was given instead of
\* the one pp_cur_pic points to.
Deinterlace_UpdateHistory_Newest(h, src) ==
    LET full  == h.num_pics = h.sz
        n1    == IF full THEN h.num_pics - 1 ELSE h.num_pics
        moved == IF full
                 THEN [ k \in DOMAIN h.pp_pics |->
                          IF k < n1 THEN h.pp_pics[k + 1] ELSE h.pp_pics[k] ]
                 ELSE h.pp_pics
        pics  == [ moved EXCEPT ![n1] = src ]
    IN  [ history  |-> [ h EXCEPT !.pp_pics = pics, !.num_pics = n1 + 1 ],
          released |-> IF full THEN << h.pp_pics[0] >> ELSE << >>,
          cur_pic  |-> src ]

\* Lines 740-748: the new history and the pictures released by the push.
Deinterlace_UpdateHistory(h, src) ==
    LET full  == h.num_pics = h.sz
        n1    == IF full THEN h.num_pics - 1 ELSE h.num_pics
        moved == IF full
                 THEN [ k \in DOMAIN h.pp_pics |->
                          IF k < n1 THEN h.pp_pics[k + 1] ELSE h.pp_pics[k] ]
                 ELSE h.pp_pics
        pics  == [ moved EXCEPT ![n1] = src ]
    IN  [ history  |-> [ h EXCEPT !.pp_pics = pics, !.num_pics = n1 + 1 ],
          released |-> IF full THEN << h.pp_pics[0] >> ELSE << >>,
          cur_pic  |-> pics[h.cur] ]

\* ReleaseAll releasing nothing.
ReleaseAll_None(refs, pics) == refs

RECURSIVE ReleaseAll(_, _)
ReleaseAll(refs, pics) ==
    IF pics = << >> THEN refs
    ELSE ReleaseAll(picture_Release(refs, Head(pics)), Tail(pics))

\* The fields of a source picture are gone with its last reference.
Destroyed(fr) ==
    [ fr EXCEPT !.tff = [ f \in DOMAIN @ |->
                            IF fr.refs[f] = 0 THEN FALSE ELSE @[f] ] ]

\* Line 798 with <= for <.
Deinterlace_Filling_Late(h) == h.num_pics <= h.sz

\* Line 798.
Deinterlace_Filling(h) == h.num_pics < h.sz

\* Lines 797-799: the push, then nothing more while the window fills.
Deinterlace ==
    /\ pc = "idle"
    /\ psz_name = "deinterlace"
    /\ frames.n < MaxFrames
    /\ \E tff \in BOOLEAN :
         LET sub == Submit(tff)
             up  == Deinterlace_UpdateHistory(p_data.history, frames.n + 1)
         IN  /\ frames' = Destroyed([ sub EXCEPT
                              !.refs = ReleaseAll(@, up.released) ])
             /\ p_data' = [ p_data EXCEPT !.history = up.history ]
             /\ loc' = [ NoLoc EXCEPT !.src = up.cur_pic ]
             /\ pc' = IF Deinterlace_Filling(up.history)
                      THEN "ret" ELSE "Filter"
    /\ va_calls' = << >>
    /\ UNCHANGED << psz_name, filter_sys, drv, param_buf, pool, callbacks,
                    ub, n_updates, stored >>

\* Lines 806-809.
Deinterlace_Return ==
    /\ pc = "ret"
    /\ psz_name = "deinterlace"
    /\ pool' = IF loc.out # NULL
               THEN [ pool EXCEPT !.props[loc.out].b_progressive = TRUE ]
               ELSE pool
    /\ loc' = NoLoc
    /\ va_calls' = << >>
    /\ pc' = "idle"
    /\ UNCHANGED << psz_name, filter_sys, p_data, drv, param_buf, frames,
                    callbacks, ub, n_updates, stored >>

\* The downstream consumer drops an output picture it was handed.
ReleaseOutput ==
    /\ pc \notin { "unloaded", "open_failed", "closed" }
    /\ \E d \in 1 .. DEST_PICS_POOL_SZ :
         /\ pool.refs[d] > 0
         /\ d # loc.dest
         /\ pool' = PoolRelease(pool, d)
    /\ UNCHANGED << pc, psz_name, filter_sys, p_data, drv, param_buf, frames,
                    loc, va_calls, callbacks, ub, n_updates, stored >>

(***************************************************************************)
(* The control path                                                        *)
(***************************************************************************)
\* FilterCallback storing the value of an Adjust control into the channel
\* after the named one.
FilterCallback_Result_NextChannel(pd, psz_var, newval) ==
    LET adj == { i \in 0 .. NUM_ADJUST_MODES - 1 :
                   psz_var = adjust_params_names[i] }
    IN
    IF adj # {}
    THEN LET i == Min(adj)
             n == (i + 1) % NUM_ADJUST_MODES
             p_vlc_range == vlc_adjust_sigma_ranges[i]
             p_drv_range == pd.params.sigma[i].drv_range
             clipped     == VLC_CLIP(newval, p_vlc_range.min_value,
                                     p_vlc_range.max_value)
             vlc_sigma   == adapt_adjust_sigma(psz_var, clipped, p_vlc_range)
             drv_sigma   == GET_DRV_SIGMA(vlc_sigma, p_vlc_range, p_drv_range)
         IN  IF ~ pd.params.sigma[i].is_available
             THEN [ ret |-> VLC_EGENERIC, p_data |-> pd, slot |-> -1,
                    drv_sigma |-> 0 ]
             ELSE [ ret |-> VLC_SUCCESS, slot |-> n, drv_sigma |-> drv_sigma,
                    p_data |-> [ pd EXCEPT !.params.sigma[n].drv_value =
                                              drv_sigma ] ]
    ELSE IF psz_var = "denoise-sigma" \/ psz_var = "sharpen-sigma"
    THEN LET p_vlc_range == pd.sigma.p_vlc_range
             vlc_sigma   == VLC_CLIP(newval, p_vlc_range.min_value,
                                     p_vlc_range.max_value)
             drv_sigma   == GET_DRV_SIGMA(vlc_sigma, p_vlc_range,
                                          pd.sigma.drv_range)
         IN  [ ret |-> VLC_SUCCESS, slot |-> 0, drv_sigma |-> drv_sigma,
               p_data |-> [ pd EXCEPT !.sigma.drv_value = drv_sigma ] ]
    ELSE [ ret |-> VLC_EGENERIC, p_data |-> pd, slot |-> -1, drv_sigma |-> 0 ]

\* FilterCallback without the test of is_available.
FilterCallback_Result_Unchecked(pd, psz_var, newval) ==
    LET adj == { i \in 0 .. NUM_ADJUST_MODES - 1 :
                   psz_var = adjust_params_names[i] }
    IN
    IF adj # {}
    THEN LET i == Min(adj)
             p_vlc_range == vlc_adjust_sigma_ranges[i]
             clipped     == VLC_CLIP(newval, p_vlc_range.min_value,
                                     p_vlc_range.max_value)
             vlc_sigma   == adapt_adjust_sigma(psz_var, clipped, p_vlc_range)
             drv_sigma   == GET_DRV_SIGMA(vlc_sigma, p_vlc_range,
                                          Range(0, 1000))
         IN  [ ret |-> VLC_SUCCESS, slot |-> i, drv_sigma |-> drv_sigma,
               p_data |-> [ pd EXCEPT !.params.sigma[i].drv_value =
                                         drv_sigma ] ]
    ELSE IF psz_var = "denoise-sigma" \/ psz_var = "sharpen-sigma"
    THEN [ ret |-> VLC_SUCCESS, slot |-> 0, drv_sigma |-> 0,
           p_data |-> [ pd EXCEPT !.sigma.drv_value = 0 ] ]
    ELSE [ ret |-> VLC_EGENERIC, p_data |-> pd, slot |-> -1, drv_sigma |-> 0 ]

\* Lines 403-452: the return value and the data after the call.
FilterCallback_Result(pd, psz_var, newval) ==
    LET adj == { i \in 0 .. NUM_ADJUST_MODES - 1 :
                   psz_var = adjust_params_names[i] }
    IN
    IF adj # {}
    THEN LET i == Min(adj)
             p_vlc_range == vlc_adjust_sigma_ranges[i]
             p_drv_range == pd.params.sigma[i].drv_range
             clipped     == VLC_CLIP(newval, p_vlc_range.min_value,
                                     p_vlc_range.max_value)
             vlc_sigma   == adapt_adjust_sigma(psz_var, clipped, p_vlc_range)
             drv_sigma   == GET_DRV_SIGMA(vlc_sigma, p_vlc_range, p_drv_range)
         IN  IF ~ pd.params.sigma[i].is_available
             THEN [ ret |-> VLC_EGENERIC, p_data |-> pd, slot |-> -1,
                    drv_sigma |-> 0 ]
             ELSE [ ret |-> VLC_SUCCESS, slot |-> i, drv_sigma |-> drv_sigma,
                    p_data |-> [ pd EXCEPT !.params.sigma[i].drv_value =
                                              drv_sigma ] ]
    ELSE IF psz_var = "denoise-sigma" \/ psz_var = "sharpen-sigma"
    THEN LET p_vlc_range == pd.sigma.p_vlc_range
             vlc_sigma   == VLC_CLIP(newval, p_vlc_range.min_value,
                                     p_vlc_range.max_value)
             drv_sigma   == GET_DRV_SIGMA(vlc_sigma, p_vlc_range,
                                          pd.sigma.drv_range)
         IN  [ ret |-> VLC_SUCCESS, slot |-> 0, drv_sigma |-> drv_sigma,
               p_data |-> [ pd EXCEPT !.sigma.drv_value = drv_sigma ] ]
    ELSE [ ret |-> VLC_EGENERIC, p_data |-> pd, slot |-> -1, drv_sigma |-> 0 ]

\* A variable the callback is attached to changes; "gamma" stands for a
\* name the function does not know.
FilterCallback(psz_var, newval) ==
    /\ callbacks # {}
    /\ psz_var \in callbacks \cup { "gamma" }
    /\ n_updates < MaxUpdates
    /\ n_updates' = n_updates + 1
    /\ LET r == FilterCallback_Result(p_data, psz_var, newval)
       IN  /\ p_data' = r.p_data
           /\ stored' = IF r.ret = VLC_SUCCESS
                         THEN [ stored EXCEPT ![r.slot] = r.drv_sigma ]
                         ELSE stored
    /\ UNCHANGED << pc, psz_name, filter_sys, drv, param_buf, pool, frames,
                    loc, va_calls, callbacks, ub >>

(***************************************************************************)
(* Close                                                                   *)
(***************************************************************************)
\* Lines 390-395.
Close ==
    /\ va_calls' = << Call("picture_pool_Release", NULL),
                      Call("DestroyBuffer", filter_sys.buf),
                      Call("DestroyContext", filter_sys.ctx),
                      Call("DestroyConfig", filter_sys.conf),
                      Call("ReleaseInstance", NULL) >>
    /\ drv' = [ drv EXCEPT !.pool = FALSE,
                           !.buffers = @ \ { filter_sys.buf },
                           !.contexts = @ \ { filter_sys.ctx },
                           !.configs = @ \ { filter_sys.conf },
                           !.inst_refs = @ - 1 ]
    /\ param_buf' = << >>
    /\ filter_sys' = NoSys
    /\ pc' = "closed"

\* Lines 589-596.
CloseAdjust ==
    /\ pc = "idle"
    /\ psz_name = "adjust"
    /\ callbacks' = {}
    /\ p_data' = NoData
    /\ Close
    /\ UNCHANGED << psz_name, pool, frames, loc, ub, n_updates, stored >>

\* Lines 726-730.
CloseBasicFilter ==
    /\ pc = "idle"
    /\ psz_name \in { "denoise", "sharpen" }
    /\ callbacks' = {}
    /\ p_data' = NoData
    /\ Close
    /\ UNCHANGED << psz_name, pool, frames, loc, ub, n_updates, stored >>

\* Lines 986-995: the pictures still in the window are released, newest
\* first.
CloseDeinterlace ==
    /\ pc = "idle"
    /\ psz_name = "deinterlace"
    /\ frames' = Destroyed([ frames EXCEPT !.refs =
                     ReleaseAll(@, [ k \in 1 .. p_data.history.num_pics |->
                         p_data.history.pp_pics[p_data.history.num_pics - k] ]) ])
    /\ p_data' = NoData
    /\ Close
    /\ UNCHANGED << psz_name, pool, loc, callbacks, ub, n_updates, stored >>

(***************************************************************************)
(* What the hardware and the configuration supply                          *)
(***************************************************************************)
Cap(type, lo, hi) == [ type |-> type, range |-> Range(lo, hi) ]

\* Values a control variable can be given: below every range, inside every
\* range, above every range.
InputValues == { -500000, 1000, 500000 }

Hardware ==
    [ color_caps |->
        { << >>,
          << Cap("VAProcColorBalanceContrast", 0, 100000),
             Cap("VAProcColorBalanceHue", -2000, 2000) >>,
          << Cap("VAProcColorBalanceHue", -2000, 2000),
             Cap("VAProcColorBalanceSaturation", 0, 10000),
             Cap("VAProcColorBalanceAutoBrightness", 0, 0),
             Cap("VAProcColorBalanceAutoContrast", 0, 0) >>,
          << Cap("VAProcColorBalanceBrightness", -100000, 100000),
             Cap("VAProcColorBalanceHue", -2000, 2000),
             Cap("VAProcColorBalanceAutoSaturation", 0, 0),
             Cap("VAProcColorBalanceAutoBrightness", 0, 0),
             Cap("VAProcColorBalanceAutoContrast", 0, 0) >> },
      mem |-> { "0x746e6f63", "VAProcColorBalanceAutoSaturation" },
      smash |-> { [ kind |-> "inc", v |-> 0 ], [ kind |-> "value", v |-> 0 ] },
      inherit |-> InputValues,
      basic_ranges |-> { Range(0, 64000), Range(-1000, 1000) },
      deint_caps |-> { << >>,
                       << "VAProcDeinterlacingNone" >>,
                       << "VAProcDeinterlacingBob",
                          "VAProcDeinterlacingMotionAdaptive" >> },
      deint_mode |-> { NoString, "bob" },
      refs |-> 0 .. MaxRefs,
      fast |-> { TRUE } ]

Next ==
    \/ OpenAdjust
    \/ OpenBasicFilter
    \/ OpenDeinterlace
    \/ Open_CheckFormat
    \/ Open_HoldInstance
    \/ Open_PoolNew
    \/ Open_CreateConfig
    \/ Open_CreateContext
    \/ Open_IsVideoProcFilterAvailable
    \/ Open_InitFilterParams(Hardware)
    \/ Open_CreateBuffer
    \/ Open_QueryVideoProcPipelineCaps(Hardware)
    \/ Open_UsePipelineCaps
    \/ Open_error
    \/ OpenAdjust_Return
    \/ OpenBasicFilter_Return
    \/ OpenDeinterlace_Return
    \/ Adjust
    \/ Adjust_Return
    \/ BasicFilter
    \/ BasicFilter_Return
    \/ Deinterlace
    \/ Deinterlace_Return
    \/ Filter_PoolWait
    \/ Filter_MapBuffer
    \/ Adjust_UpdateVAFilterParams
    \/ BasicFilter_UpdateVAFilterParams
    \/ Filter_UnmapBuffer
    \/ Filter_BeginPicture
    \/ Deinterlace_UpdateReferenceFrames
    \/ Filter_CreateBuffer
    \/ Filter_MapPipeline
    \/ Filter_UnmapPipeline
    \/ Filter_RenderPicture
    \/ Filter_EndPicture
    \/ Filter_error
    \/ ReleaseOutput
    \/ \E psz_var \in callbacks \cup { "gamma" }, newval \in InputValues :
         FilterCallback(psz_var, newval)
    \/ CloseAdjust
    \/ CloseBasicFilter
    \/ CloseDeinterlace

Spec == Init /\ [][Next]_vars

(***************************************************************************)
(* OpenDeinterlace_GetMode on its own: every requested name against every  *)
(* capability array the driver can fill                                    *)
(***************************************************************************)
\* The deinterlacing types of the driver interface; the capability array of
\* OpenDeinterlace_InitFilterParams has VAProcDeinterlacingCount slots.
VAProcDeinterlacingTypes ==
    { "VAProcDeinterlacingNone", "VAProcDeinterlacingBob",
      "VAProcDeinterlacingWeave", "VAProcDeinterlacingMotionAdaptive",
      "VAProcDeinterlacingMotionCompensated" }
VAProcDeinterlacingCount == Cardinality(VAProcDeinterlacingTypes)

\* The arrays the capability query can return: each type at most once, in
\* any order.
DeintCapsArrays ==
    UNION { { c \in [ 1 .. n -> VAProcDeinterlacingTypes ] :
                \A a, b \in 1 .. n : a # b => c[a] # c[b] } :
            n \in 0 .. VAProcDeinterlacingCount }

\* What var_InheritString can return for "deinterlace-mode": nothing, auto,
\* the names of the table, a name that is not in it.
DeintModeNames == { NoString, "auto", "x", "bob", "mean", "yadif" }

InitGetMode ==
    /\ pc = "OpenDeinterlace_GetMode"
    /\ psz_name = "deinterlace"
    /\ filter_sys = NoSys
    /\ p_data = DeintData
    /\ drv = NoDrv
    /\ param_buf = << >>
    /\ pool = NoPool
    /\ frames = NoFrames
    /\ \E d \in DeintModeNames, c \in DeintCapsArrays :
         loc = [ deint_mode |-> d, caps |-> c, ret |-> "none", mode |-> "0" ]
    /\ va_calls = << >>
    /\ callbacks = {}
    /\ n_updates = 0
    /\ stored = << >>
    /\ ub = {}

\* Lines 894-898: the call and its result.
GetMode ==
    /\ pc = "OpenDeinterlace_GetMode"
    /\ LET got == OpenDeinterlace_GetMode(loc.deint_mode, loc.caps)
       IN  loc' = [ loc EXCEPT !.ret = got.ret, !.mode = got.mode ]
    /\ pc' = "OpenDeinterlace_GetMode_ret"
    /\ UNCHANGED << psz_name, filter_sys, p_data, drv, param_buf, pool,
                    frames, va_calls, callbacks, n_updates, stored, ub >>

NextGetMode == GetMode

SpecGetMode == InitGetMode /\ [][NextGetMode]_vars

(***************************************************************************)
(* Properties                                                              *)
(***************************************************************************)
OpenPcs ==
    { "unloaded", "Open", "Open_HoldInstance", "Open_PoolNew",
      "Open_CreateConfig", "Open_CreateContext",
      "Open_IsVideoProcFilterAvailable", "Open_InitFilterParams",
      "Open_CreateBuffer", "Open_QueryVideoProcPipelineCaps",
      "Open_UsePipelineCaps", "Open_error", "Open_ret", "open_failed" }

\* The driver calls of Filter that can fail once dest is held.
FilterDriverPcs ==
    { "Filter_MapBuffer", "Filter_UnmapBuffer", "Filter_BeginPicture",
      "Filter_CreateBuffer", "Filter_MapPipeline", "Filter_UnmapPipeline",
      "Filter_RenderPicture", "Filter_EndPicture" }

FilterPcs ==
    FilterDriverPcs \cup
    { "Filter", "Adjust_UpdateVAFilterParams",
      "BasicFilter_UpdateVAFilterParams",
      "Deinterlace_UpdateReferenceFrames", "Filter_error" }

\* The filter is open: between a successful OpenXxx and CloseXxx.
SessionOpen == pc \in FilterPcs \cup { "idle", "ret" }

\* Open has returned VLC_SUCCESS, or the filter is open.
Opened == SessionOpen \/ (pc = "Open_ret" /\ loc.ret = VLC_SUCCESS)

\* C1: when Open returns an error, whatever step failed, nothing it had
\* acquired is still held: no instance reference, no output pool, no
\* configuration, no context, no buffer.
C1_FailedOpenHoldsNothing ==
    (pc = "Open_ret" /\ loc.ret # VLC_SUCCESS) =>
        /\ drv.inst_refs = 0
        /\ ~ drv.pool
        /\ drv.configs = {}
        /\ drv.contexts = {}
        /\ drv.buffers = {}

\* Open has failed after the pool was created: everything but the pool is
\* released.
C1_FailedAfterPoolNew ==
    /\ pc = "Open_ret"
    /\ loc.ret # VLC_SUCCESS
    /\ drv.pool
    /\ drv.inst_refs = 0
    /\ drv.configs = {} /\ drv.contexts = {} /\ drv.buffers = {}

\* C2: once a call of Filter has returned, with a picture or without, the
\* pipeline buffer it created is destroyed: between calls the only live
\* buffer is the filter parameter buffer.
C2_NoPipelineBufferBetweenCalls ==
    (SessionOpen /\ pc \in { "ret", "idle" }) =>
        drv.buffers \subseteq { filter_sys.buf }

\* A call of Filter has returned its picture and its pipeline buffer is live.
C2_BufferLeftBySuccess ==
    /\ pc = "ret"
    /\ loc.out # NULL
    /\ loc.pipeline_buf \in drv.buffers

\* The state after a call of Filter that took dest and returned no picture.
C3_Released ==
    (pc = "ret" /\ loc.dest # NULL /\ loc.out # loc.dest) =>
        /\ loc.out = NULL
        /\ pool.refs[loc.dest] = 0
        /\ loc.dest \in pool.free
        /\ loc.pipeline_buf \notin drv.buffers

\* The step that leaves a driver call of Filter, and the error label.
C3_Step ==
    /\ (pc \in FilterDriverPcs /\ pc' # pc) =>
          /\ loc.dest # NULL /\ pool.refs[loc.dest] = 1
          /\ \/ pc' = "Filter_error"
             \/ pc' \in FilterPcs /\ pool' = pool
             \/ pc = "Filter_EndPicture" /\ pc' = "ret"
                  /\ loc'.out = loc.dest /\ pool' = pool
    /\ (pc = "Filter_error" /\ pc' # pc) =>
          /\ pc' = "ret"
          /\ loc'.out = NULL
          /\ pool'.refs[loc.dest] = pool.refs[loc.dest] - 1
          /\ loc.pipeline_buf_init =>
               IF loc.pipeline_buf # VA_INVALID_ID
               THEN /\ drv'.buffers = drv.buffers \ { loc.pipeline_buf }
                    /\ va_calls' = Append(va_calls, Call("DestroyBuffer",
                                                         loc.pipeline_buf))
               ELSE drv' = drv /\ va_calls' = va_calls

\* C3: a failure of any driver call of Filter made after dest was taken from
\* the pool (map, unmap, begin picture, create pipeline buffer, map, unmap,
\* render, end picture) goes to the error label; Filter then returns NULL,
\* dest is released exactly once (it is free again, its count is 0) and the
\* pipeline buffer, if it was created, is destroyed.
C3_FailureReleasesDest == [] C3_Released /\ [][C3_Step]_vars

\* EndPicture has failed: the call returned NULL with a pipeline buffer
\* created.
C3_FailedAfterCreateBuffer ==
    /\ pc = "ret"
    /\ loc.dest # NULL
    /\ loc.out = NULL
    /\ loc.pipeline_buf # VA_INVALID_ID
    /\ va_calls[Len(va_calls) - 1].op = "EndPicture"

\* C4: when the pool has no free picture, Filter returns NULL without a
\* single driver call, and the handles, the driver's objects, the stored
\* values and the parameter buffer are what they were.
C4_EmptyPoolNoSideEffect ==
    [][ (pc = "Filter" /\ pool.free = {} /\ pc' # pc) =>
            /\ pc' = "ret"
            /\ loc'.out = NULL
            /\ loc'.pipeline_buf = VA_INVALID_ID
            /\ va_calls' = << >>
            /\ UNCHANGED << filter_sys, p_data, drv, param_buf, pool >> ]_vars

\* A call of Filter has returned NULL because the pool was empty.
C4_ReturnedOnEmptyPool ==
    /\ pc = "ret"
    /\ loc.called
    /\ loc.dest = NULL
    /\ pool.free = {}
    /\ \A d \in 1 .. DEST_PICS_POOL_SZ : pool.refs[d] = 1

\* The window of a Deinterlace filter never holds more than its capacity.
C5_Capacity ==
    (SessionOpen /\ psz_name = "deinterlace") =>
        /\ p_data.history.sz = p_data.backward_refs.sz + 1
                                 + p_data.forward_refs.sz
        /\ p_data.history.num_pics <= p_data.history.sz

\* One push: on a full window the oldest picture, and only it, is released
\* and the count stays; otherwise nothing is released and the count grows.
C5_Push ==
    (pc = "idle" /\ psz_name = "deinterlace" /\ frames'.n = frames.n + 1) =>
        LET h      == p_data.history
            h2     == p_data'.history
            oldest == h.pp_pics[0]
            others == IF h.num_pics = h.sz THEN (1 .. frames.n) \ { oldest }
                      ELSE 1 .. frames.n
        IN  /\ \A f \in others : frames'.refs[f] = frames.refs[f]
            /\ IF h.num_pics = h.sz
               THEN /\ h2.num_pics = h.sz
                    /\ oldest = frames.n - h.sz + 1
                    /\ frames.refs[oldest] = 1
                    /\ frames'.refs[oldest] = 0
                    /\ \A k \in 0 .. h.sz - 2 : h2.pp_pics[k] = h.pp_pics[k + 1]
                    /\ h2.pp_pics[h.sz - 1] = frames'.n
               ELSE /\ h2.num_pics = h.num_pics + 1
                    /\ h2.pp_pics[h.num_pics] = frames'.n

\* C5: the window of a Deinterlace filter holds at most backward + 1 +
\* forward pictures, and once it is full every push releases exactly one
\* picture, the oldest, before it admits the new one.
C5_HistoryBounded == [] C5_Capacity /\ [][C5_Push]_vars

\* A push on a full window of three pictures has evicted the first one.
C5_EvictedOldest ==
    /\ psz_name = "deinterlace"
    /\ SessionOpen
    /\ p_data.history.sz = 3
    /\ frames.n = 4
    /\ frames.refs[1] = 0
    /\ p_data.history.pp_pics[0] = 2

\* What a call of Deinterlace has done when it returns, by the number of
\* pictures submitted so far.
C6_Returned ==
    (psz_name = "deinterlace" /\ SessionOpen) =>
        LET C == p_data.history.sz
        IN  /\ pc \in FilterPcs => frames.n >= C
            /\ (pc = "ret" /\ frames.n < C) =>
                  /\ ~ loc.called
                  /\ loc.out = NULL
                  /\ va_calls = << >>
                  /\ p_data.history.num_pics = frames.n
            /\ (pc = "ret" /\ frames.n >= C) =>
                  /\ loc.called
                  /\ loc.out # NULL =>
                       /\ loc.out = loc.dest
                       /\ pool.refs[loc.out] = 1
                       /\ pool.props[loc.out].from = frames.n - C + 1
                                                      + p_data.forward_refs.sz

\* Filter returns without a picture only from the empty pool or from the
\* error label, and the error label is entered only from a driver call.
C6_Step ==
    (psz_name = "deinterlace" /\ pc \in FilterPcs) =>
        /\ pc' = "ret" =>
             \/ pc = "Filter" /\ pool.free = {}
             \/ pc = "Filter_error"
             \/ pc = "Filter_EndPicture" /\ loc'.out = loc.dest
                                         /\ loc.dest # NULL
        /\ (pc' = "Filter_error" /\ pc # pc') => pc \in FilterDriverPcs

\* C6: with a window of capacity C, each of the first C-1 pictures submitted
\* is kept, gives no output and does not reach Filter; from the C-th on
\* every submitted picture reaches Filter and gives exactly one output
\* picture unless the pool is empty or a driver call fails.
C6_FillingThenSteady == [] C6_Returned /\ [][C6_Step]_vars

\* The third picture submitted to a window of three gave the first output.
C6_FirstOutput ==
    /\ psz_name = "deinterlace"
    /\ pc = "ret"
    /\ p_data.history.sz = 3
    /\ frames.n = 3
    /\ loc.out # NULL
    /\ pool.refs = [ d \in 1 .. DEST_PICS_POOL_SZ |-> IF d = 1 THEN 1 ELSE 0 ]

C8_AvailableIffReported ==
    (psz_name = "adjust" /\ Opened) =>
        /\ \A i \in 0 .. NUM_ADJUST_MODES - 1 :
             p_data.params.sigma[i].is_available
                 <=> va_adjust_modes[i] \in drv.reported
        /\ drv.reported = { "VAProcColorBalanceContrast",
                            "VAProcColorBalanceHue" } =>
             /\ Len(param_buf) = 2
             /\ param_buf[1].attrib = "VAProcColorBalanceContrast"
             /\ param_buf[2].attrib = "VAProcColorBalanceHue"

\* The hardware reported contrast and hue only, and the open Adjust filter
\* has hue flagged unavailable and one entry in its parameter buffer.
C8_HueDropped ==
    /\ psz_name = "adjust"
    /\ pc = "idle"
    /\ drv.reported = { "VAProcColorBalanceContrast",
                        "VAProcColorBalanceHue" }
    /\ ~ p_data.params.sigma[ADJUST_HUE].is_available
    /\ Len(param_buf) = 1

\* C9: the parameter buffer of an open Adjust filter has as many entries as
\* channels are flagged available, its k-th entry is that of the k-th
\* available channel in the order contrast, brightness, hue, saturation,
\* and every call of Filter writes that many entries, all inside the buffer.
C9_EntriesMatchAvailable ==
    (psz_name = "adjust" /\ Opened) =>
        LET avail == AvailModes(p_data)
        IN  /\ Len(param_buf) = Len(avail)
            /\ \A k \in 1 .. Len(avail) :
                 /\ k \in DOMAIN param_buf
                 /\ param_buf[k].attrib = va_adjust_modes[avail[k]]
            /\ pc = "Filter_UnmapBuffer" => loc.i = Len(avail)

\* More than NUM_ADJUST_MODES capabilities were reported, the read past the
\* end of va_adjust_modes matched one, and the open filter has a parameter
\* buffer whose size is not the number of available channels.
C9_CountSmashed ==
    /\ psz_name = "adjust"
    /\ pc = "idle"
    /\ ub # {}
    /\ Len(param_buf) # Len(AvailModes(p_data))

\* C10: once the filter is open, and whatever control updates follow, the
\* stored driver value of every available Adjust channel and of the Basic
\* sigma lies within the range the driver reported for it.
C10_StoredValuesInRange ==
    Opened =>
        /\ (p_data.kind = "adjust") =>
             \A i \in 0 .. NUM_ADJUST_MODES - 1 :
                LET sigma == p_data.params.sigma[i]
                IN  (/\ sigma.is_available
                     /\ sigma.drv_range.min_value <= sigma.drv_range.max_value)
                    => (/\ sigma.drv_range.min_value <= sigma.drv_value
                        /\ sigma.drv_value <= sigma.drv_range.max_value)
        /\ (/\ p_data.kind = "basic"
            /\ p_data.sigma.drv_range.min_value
                  <= p_data.sigma.drv_range.max_value)
            => (/\ p_data.sigma.drv_range.min_value <= p_data.sigma.drv_value
                /\ p_data.sigma.drv_value <= p_data.sigma.drv_range.max_value)

\* Hue sits at the low end of its driver range and saturation does not:
\* one of them was set by a control update, and a value below the range
\* was clipped.
C10_ClippedToMin ==
    /\ p_data.kind = "adjust"
    /\ SessionOpen
    /\ n_updates > 0
    /\ p_data.params.sigma[ADJUST_HUE].is_available
    /\ p_data.params.sigma[ADJUST_SAT].is_available
    /\ p_data.params.sigma[ADJUST_HUE].drv_value =
           p_data.params.sigma[ADJUST_HUE].drv_range.min_value
    /\ p_data.params.sigma[ADJUST_SAT].drv_value >
           p_data.params.sigma[ADJUST_SAT].drv_range.min_value

\* An open Adjust filter whose hardware reported the contrast range [0,100].
C11_ContrastRange ==
    /\ psz_name = "adjust"
    /\ Opened
    /\ p_data.params.sigma[ADJUST_CONT].is_available
    /\ p_data.params.sigma[ADJUST_CONT].drv_range = Range(0, 100000)

\* What FilterCallback stores for contrast when it is called with 1.0 now.
C11_Stored ==
    FilterCallback_Result(p_data, "contrast", 1000)
        .p_data.params.sigma[ADJUST_CONT].drv_value

\* C11 as stated: with the contrast driver range [0,100], setting the
\* contrast control to 1.0 stores 0.35/2 * (100-0) + 0 = 17.5.
C11_ContrastOneStores17_5 ==
    C11_ContrastRange =>
        /\ FilterCallback_Result(p_data, "contrast", 1000).ret = VLC_SUCCESS
        /\ C11_Stored = 17500

\* C11: with the contrast driver range [0,100], setting the contrast
\* control to 1.0 compresses it to 1.0 * 0.35/2 = 0.175 and stores
\* 0.175 * (100-0)/2 + 0 = 8.75: the compressed value is mapped into the
\* driver range with the control range [0,2] again.
C11_ContrastOneStores8_75 ==
    C11_ContrastRange =>
        /\ FilterCallback_Result(p_data, "contrast", 1000).ret = VLC_SUCCESS
        /\ C11_Stored = 8750
        /\ C11_Stored = (((1000 * 350) \div 2000) * 100000) \div 2000

\* A control update has set contrast to 1.0 on such a filter: 8.75 is
\* stored, and it is not what Open had computed, since the call of Filter
\* made before the update wrote 17.5 into the parameter buffer.
C11_ContrastSetToOne ==
    /\ C11_ContrastRange
    /\ pc = "idle"
    /\ n_updates = 1
    /\ Len(param_buf) = 1
    /\ param_buf[1].attrib = "VAProcColorBalanceContrast"
    /\ param_buf[1].value = 17500
    /\ p_data.params.sigma[ADJUST_CONT].drv_value = 8750
    /\ stored[ADJUST_CONT] = 8750

C12_AdjustNames == { "contrast", "brightness", "hue", "saturation" }

C12_Channel(name) ==
    CASE name = "contrast"   -> ADJUST_CONT
      [] name = "brightness" -> ADJUST_LUM
      [] name = "hue"        -> ADJUST_HUE
      [] name = "saturation" -> ADJUST_SAT

\* The names a control change must fail for, given the filter data.
C12_MustFail(pd, name) ==
    \/ name \notin C12_AdjustNames \cup { "denoise-sigma", "sharpen-sigma" }
    \/ /\ name \in C12_AdjustNames
       /\ ~ pd.params.sigma[C12_Channel(name)].is_available

\* What FilterCallback returns and leaves, for every name it can be called
\* with in this state and every value.
C12_Returned ==
    \A name \in callbacks \cup { "gamma" }, v \in InputValues :
       callbacks # {} =>
         LET r == FilterCallback_Result(p_data, name, v)
         IN  IF C12_MustFail(p_data, name)
             THEN r.ret = VLC_EGENERIC /\ r.p_data = p_data
             ELSE r.ret = VLC_SUCCESS

\* A control change is one such call, and a failed one changes nothing but
\* the count of calls.
C12_Step ==
    (n_updates' = n_updates + 1) =>
        /\ \E name \in callbacks \cup { "gamma" }, v \in InputValues :
             LET r == FilterCallback_Result(p_data, name, v)
             IN  /\ p_data' = r.p_data
                 /\ r.ret = VLC_EGENERIC => stored' = stored
        /\ p_data' = p_data => DrvValues(p_data') = DrvValues(p_data)
        /\ UNCHANGED << pc, filter_sys, drv, param_buf, pool, frames, loc,
                        callbacks >>

\* C12: a control change returns VLC_EGENERIC and leaves every stored
\* driver value as it was when its name is neither an Adjust channel name
\* nor a Basic sigma name, or names an Adjust channel that is not
\* available; for every other name it returns VLC_SUCCESS.
C12_ControlChangeFailures == [] C12_Returned /\ [][C12_Step]_vars

\* A control change was delivered to an Adjust filter none of whose
\* channels is available: it failed, whatever its name, and the stored
\* values are those of Open.
C12_FailedOnUnavailable ==
    /\ psz_name = "adjust"
    /\ pc = "idle"
    /\ n_updates = 1
    /\ \A i \in 0 .. NUM_ADJUST_MODES - 1 :
         ~ p_data.params.sigma[i].is_available
    /\ stored = DrvValues(p_data)
    /\ \A name \in callbacks : C12_MustFail(p_data, name)

\* The statements of the parameter-update callbacks.
C13_LoadPcs ==
    { "Adjust_UpdateVAFilterParams", "BasicFilter_UpdateVAFilterParams" }

\* The memory of every drv_value holds the last value stored into it.
C13_LastStore ==
    (Opened /\ p_data.kind \in { "adjust", "basic" }) =>
        stored = DrvValues(p_data)

\* Stores are made by pf_init_filter_params and by control changes only, a
\* control change stores at most one value, and the callbacks run only
\* after the parameter buffer was mapped; each value they write is that of
\* the last store made before the load.
C13_Step ==
    /\ stored' # stored =>
         \/ pc = "Open_InitFilterParams"
         \/ /\ n_updates' = n_updates + 1
            /\ \E k \in DOMAIN stored :
                 /\ \A m \in DOMAIN stored \ { k } : stored'[m] = stored[m]
                 /\ \E name \in callbacks, v \in InputValues :
                      LET r == FilterCallback_Result(p_data, name, v)
                      IN  /\ r.ret = VLC_SUCCESS
                          /\ r.slot = k
                          /\ stored'[k] = r.drv_sigma
    /\ (pc' \in C13_LoadPcs /\ pc \notin C13_LoadPcs) =>
         /\ pc = "Filter_MapBuffer"
         /\ va_calls'[Len(va_calls')] = Call("MapBuffer", filter_sys.buf)
    /\ (/\ pc = "Adjust_UpdateVAFilterParams"
        /\ loc'.i = loc.i + 1
        /\ loc.i + 1 \in DOMAIN param_buf) =>
         /\ p_data.params.sigma[loc.j].is_available
         /\ param_buf'[loc.i + 1].value = stored[loc.j]
         /\ \A k \in DOMAIN param_buf \ { loc.i + 1 } :
              param_buf'[k] = param_buf[k]
    /\ (pc = "BasicFilter_UpdateVAFilterParams" /\ pc' # pc) =>
         param_buf'[1].value = stored[0]
    /\ (pc \in FilterPcs \ (C13_LoadPcs \cup { "Filter_error" })) =>
         param_buf' = param_buf

C14_Order ==
    << "VAProcDeinterlacingMotionAdaptive",
       "VAProcDeinterlacingMotionCompensated",
       "VAProcDeinterlacingBob", "VAProcDeinterlacingWeave" >>

C14_Named(name) ==
    CASE name = "x"    -> { 1, 2 }
      [] name = "bob"  -> { 3 }
      [] name = "mean" -> { 4 }
      [] OTHER         -> {}

\* C14: for every requested name and every capability array, when the name
\* is given, is not "auto" and a type registered under it is supported,
\* OpenDeinterlace_GetMode selects the first supported type of that name;
\* otherwise it selects the first supported type in the order
\* motion-adaptive, motion-compensated, bob, weave; what it selects is
\* supported.
C14_SelectedMode ==
    (pc = "OpenDeinterlace_GetMode_ret") =>
        LET supported == { loc.caps[j] : j \in 1 .. Len(loc.caps) }
            named == { i \in C14_Named(loc.deint_mode) :
                         C14_Order[i] \in supported }
            any   == { i \in 1 .. 4 : C14_Order[i] \in supported }
        IN  /\ loc.ret = VLC_SUCCESS => loc.mode \in supported
            /\ IF loc.deint_mode # "auto" /\ named # {}
               THEN /\ loc.ret = VLC_SUCCESS
                    /\ loc.mode = C14_Order[Min(named)]
               ELSE IF any # {}
               THEN /\ loc.ret = VLC_SUCCESS
                    /\ loc.mode = C14_Order[Min(any)]
               ELSE loc.ret = VLC_EGENERIC

\* "x" was requested and the hardware supports bob and motion-compensated:
\* the second type registered as "x" is selected, not bob.
C14_SecondOfName ==
    /\ pc = "OpenDeinterlace_GetMode_ret"
    /\ loc.deint_mode = "x"
    /\ loc.caps = << "VAProcDeinterlacingBob",
                     "VAProcDeinterlacingMotionCompensated" >>
    /\ loc.ret = VLC_SUCCESS
    /\ loc.mode = "VAProcDeinterlacingMotionCompensated"

\* The operations of the calls made by the running call, in order.
Ops(calls) == [ k \in 1 .. Len(calls) |-> calls[k].op ]

\* C15: Close of an open filter releases what Open acquired in the reverse
\* of the order of acquisition: the parameter buffer, the context, the
\* configuration, the output pool, the instance.
C15_CloseInReverseOrder ==
    (pc = "closed") =>
        Ops(va_calls) = << "DestroyBuffer", "DestroyContext",
                           "DestroyConfig", "picture_pool_Release",
                           "ReleaseInstance" >>

\* Close has run: the output pool, acquired second, was released first,
\* while the buffer, the context and the configuration were still alive.
C15_PoolReleasedFirst ==
    /\ pc = "closed"
    /\ Ops(va_calls) = << "picture_pool_Release", "DestroyBuffer",
                          "DestroyContext", "DestroyConfig",
                          "ReleaseInstance" >>
    /\ ~ drv.pool
    /\ drv.inst_refs = 0

\* The pictures in the window of a Deinterlace filter.
C16_Window ==
    { p_data.history.pp_pics[k] : k \in 0 .. p_data.history.num_pics - 1 }

\* A submitted picture holds its one reference exactly while it is in the
\* window; after the close no picture holds one.
C16_References ==
    (psz_name = "deinterlace") =>
        /\ \A f \in 1 .. MaxFrames : frames.refs[f] \in { 0, 1 }
        /\ \A f \in frames.n + 1 .. MaxFrames : frames.refs[f] = 0
        /\ SessionOpen =>
             /\ Cardinality(C16_Window) = p_data.history.num_pics
             /\ \A f \in 1 .. frames.n :
                  frames.refs[f] = 1 <=> f \in C16_Window
        /\ pc = "closed" => \A f \in 1 .. MaxFrames : frames.refs[f] = 0

\* A reference is dropped by a push that evicts, for the picture evicted,
\* or by the close, for the pictures of the window, and never otherwise.
C16_Step ==
    (psz_name = "deinterlace" /\ SessionOpen) =>
        \A f \in 1 .. frames.n :
           frames'.refs[f] # frames.refs[f] =>
              /\ frames.refs[f] = 1 /\ frames'.refs[f] = 0
              /\ pc = "idle"
              /\ \/ /\ pc' = "closed"
                    /\ f \in C16_Window
                 \/ /\ frames'.n = frames.n + 1
                    /\ p_data.history.num_pics = p_data.history.sz
                    /\ f = p_data.history.pp_pics[0]

\* C16: whatever pictures are submitted to a Deinterlace filter and
\* whichever calls of Filter fail, every submitted picture is released
\* exactly once, when it is evicted or at the close, and no picture of the
\* window has been released.
C16_SourcesReleasedOnce == [] C16_References /\ [][C16_Step]_vars

\* A Deinterlace filter was closed after four pictures of which at most one
\* was rendered: no picture holds a reference.
C16_ClosedAfterFailures ==
    /\ psz_name = "deinterlace"
    /\ pc = "closed"
    /\ frames.n = 4
    /\ Cardinality(drv.buffers) = 1
    /\ \A f \in 1 .. MaxFrames : frames.refs[f] = 0

(***************************************************************************)
(* C18                                                                     *)
(***************************************************************************)
\* The formats the claim is about: an output chroma other than the
\* hardware one, or an output format that is not similar to the input one.
C18_BadFormat ==
    loc.fmt.i_chroma # "VLC_CODEC_VAAPI_420" \/ ~ loc.fmt.similar

\* No resource of a session: no instance held, no pool, no configuration,
\* context or buffer, no filter_sys, and no call made to the driver.
C18_NothingAcquired ==
    /\ filter_sys = NoSys
    /\ drv = NoDrv
    /\ pool = NoPool
    /\ param_buf = << >>
    /\ va_calls = << >>

\* The step Open takes on such formats is its return, with VLC_EGENERIC.
C18_Step ==
    (pc = "Open" /\ C18_BadFormat)
        => /\ pc' = "Open_ret"
           /\ loc'.ret = VLC_EGENERIC
           /\ UNCHANGED << filter_sys, drv, pool, param_buf, va_calls >>

\* C18: when the output format is not the hardware chroma or the input and
\* output formats are not similar, Open returns an error before it acquires
\* anything: no instance is held, no pool, configuration, context or buffer
\* is created.
C18_BadFormatAcquiresNothing ==
    /\ [] ((pc = "Open" \/ (loc.fmt # NoFmt /\ C18_BadFormat))
             => C18_NothingAcquired)
    /\ [][C18_Step]_vars

\* Open has returned VLC_EGENERIC for a hardware chroma whose formats are
\* not similar.
C18_RejectedNotSimilar ==
    /\ pc = "Open_ret"
    /\ loc.ret = VLC_EGENERIC
    /\ loc.fmt = [ i_chroma |-> "VLC_CODEC_VAAPI_420", similar |-> FALSE ]
    /\ C18_NothingAcquired

(***************************************************************************)
(* C19                                                                     *)
(***************************************************************************)
\* The calls of a successful Filter in the order of the claim.  Of the three
\* callbacks, a filter runs those it passes to Filter: Adjust and the basic
\* filters pass pf_update_va_filter_params only, Deinterlace passes
\* pf_prepare_render_surface and pf_update_pipeline_params only.
C19_Calls ==
    LET deint == psz_name = "deinterlace"
    IN  << Call("MapBuffer", filter_sys.buf) >>
        \o (IF deint THEN << >>
            ELSE << Call("pf_update_va_filter_params", loc.i) >>)
        \o << Call("UnmapBuffer", filter_sys.buf),
              CallOn("BeginPicture", filter_sys.ctx,
                     vlc_vaapi_PicGetSurface("dest", loc.dest)) >>
        \o (IF deint THEN << Call("pf_prepare_render_surface", NULL) >>
            ELSE << >>)
        \o << Call("CreateBuffer", filter_sys.ctx),
              Call("MapBuffer", loc.pipeline_buf) >>
        \o (IF deint THEN << Call("pf_update_pipeline_params", NULL) >>
            ELSE << >>)
        \o << Call("UnmapBuffer", loc.pipeline_buf),
              Call("RenderPicture", loc.pipeline_buf),
              Call("EndPicture", filter_sys.ctx) >>

\* C19: a call of Filter that returns an output picture has made these calls,
\* once each and in this order: map of the parameter buffer, the
\* parameter-update callback, unmap of the parameter buffer, begin picture on
\* the surface of the destination picture, the pre-render callback, creation
\* of the pipeline buffer, its map, its filling with the pipeline-update
\* callback, its unmap, render picture, end picture.
C19_CallsInOrder ==
    (pc = "ret" /\ loc.out # NULL)
        => /\ va_calls = C19_Calls
           /\ loc.out = loc.dest
           /\ loc.pipeline_params.set
           /\ loc.pipeline_buf # filter_sys.buf

\* Deinterlace has returned an output picture after the ten calls of its
\* sequence, both of its callbacks among them.
C19_DeinterlaceRendered ==
    /\ pc = "ret"
    /\ psz_name = "deinterlace"
    /\ loc.out # NULL
    /\ Len(va_calls) = 10
    /\ va_calls[4] = Call("pf_prepare_render_surface", NULL)
    /\ va_calls[7] = Call("pf_update_pipeline_params", NULL)

(***************************************************************************)
(* C20                                                                     *)
(***************************************************************************)
\* The algorithms the filter knows, those of deint_modes.
C20_Supported == { deint_modes[i].type : i \in 1 .. Len(deint_modes) }

\* The capability query of OpenDeinterlace_InitFilterParams has been made
\* during this Open.
C20_Queried ==
    /\ psz_name = "deinterlace"
    /\ pc \in OpenPcs
    /\ \E k \in 1 .. Len(va_calls) :
         va_calls[k].op = "QueryVideoProcFilterCaps"

\* C20: when the hardware reports no deinterlacing algorithm the filter
\* supports, OpenDeinterlace_GetMode fails whatever mode is asked for, Open
\* goes to its error label and returns an error, and no parameter buffer is
\* created for the session.
C20_NoAlgorithmNoBuffer ==
    /\ \A caps \in Hardware.deint_caps, d \in Hardware.deint_mode :
         ({ caps[j] : j \in 1 .. Len(caps) } \cap C20_Supported = {})
             => OpenDeinterlace_GetMode(d, caps).ret = VLC_EGENERIC
    /\ (C20_Queried /\ drv.reported \cap C20_Supported = {})
          => /\ pc \in { "Open_error", "Open_ret", "open_failed" }
             /\ pc # "Open_error" => loc.ret = VLC_EGENERIC
             /\ filter_sys.buf \in { 0, VA_INVALID_ID }
             /\ drv.buffers = {}
             /\ param_buf = << >>
             /\ \A k \in 1 .. Len(va_calls) : va_calls[k].op # "CreateBuffer"

\* The driver answered the query with one algorithm, which the filter does
\* not know, and Open has returned VLC_EGENERIC without creating a buffer.
C20_OnlyUnknownAlgorithm ==
    /\ C20_Queried
    /\ pc = "Open_ret"
    /\ loc.ret = VLC_EGENERIC
    /\ drv.reported = { "VAProcDeinterlacingNone" }
    /\ drv.buffers = {}

(***************************************************************************)
(* C17                                                                     *)
(***************************************************************************)
\* A call of Filter that took a picture from the pool has returned without
\* an output picture.
C17_Failed ==
    /\ pc = "ret"
    /\ loc.called
    /\ loc.dest # NULL
    /\ loc.out = NULL

\* C17: after a call of Filter that failed at any step, the configuration,
\* the context and the parameter buffer of the session are the ones Open
\* created and the driver still has them, so that the next call, given a
\* free picture and no failing driver call, returns an output picture.
C17_SessionIntactAfterFailure ==
    C17_Failed
        => /\ filter_sys.conf \in drv.configs
           /\ filter_sys.ctx \in drv.contexts
           /\ filter_sys.buf \in drv.buffers
           /\ param_buf # << >>

\* The map of the parameter buffer failed, and the error label, reading the
\* pipeline_buf whose initializer the goto skipped, destroyed the parameter
\* buffer of the session.
C17_ParameterBufferDestroyed ==
    /\ C17_Failed
    /\ va_calls = << Call("MapBuffer", filter_sys.buf),
                     Call("DestroyBuffer", filter_sys.buf) >>
    /\ filter_sys.buf \notin drv.buffers
    /\ filter_sys.ctx \in drv.contexts

(***************************************************************************)
(* C21                                                                     *)
(***************************************************************************)
\* The filter data with the drv_value of control k replaced, and nothing
\* else: k is a channel of Adjust, or 0 for the sigma of a Basic filter.
C21_With(pd, k, v) ==
    IF pd.kind = "adjust"
    THEN [ pd EXCEPT !.params.sigma[k].drv_value = v ]
    ELSE [ pd EXCEPT !.sigma.drv_value = v ]

\* The control a name stands for.
C21_Control(name) ==
    IF name \in C12_AdjustNames THEN C12_Channel(name) ELSE 0

\* Whatever name and value FilterCallback is called with in this state, a
\* successful call leaves filter data that differ from the present ones in
\* the drv_value of the named control at most.
C21_OneValue ==
    \A name \in callbacks, v \in InputValues :
       LET r == FilterCallback_Result(p_data, name, v)
       IN  r.ret = VLC_SUCCESS =>
             r.p_data = C21_With(p_data, C21_Control(name),
                                 DrvValues(r.p_data)[C21_Control(name)])

\* A control change is one such call and touches nothing but the filter
\* data; every step of an open session that is not a control change, the
\* steps of Filter among them, leaves the filter data of Adjust and of the
\* Basic filters as they are.
C21_Step ==
    /\ (n_updates' = n_updates + 1) =>
          /\ \/ p_data' = p_data
             \/ \E name \in callbacks, v \in InputValues :
                  LET r == FilterCallback_Result(p_data, name, v)
                  IN  r.ret = VLC_SUCCESS /\ p_data' = r.p_data
          /\ UNCHANGED << pc, psz_name, filter_sys, drv, param_buf, pool,
                          frames, loc, va_calls, callbacks >>
    /\ (/\ n_updates' = n_updates
        /\ SessionOpen
        /\ pc' # "closed"
        /\ p_data.kind \in { "adjust", "basic" }) => p_data' = p_data

\* C21: once the filter is open, a successful control change replaces the
\* stored driver value of the named control and leaves every other stored
\* value, the availability flags, the driver ranges and the handles of the
\* session as they were; no step of Filter changes a stored driver value.
C21_OnlyNamedValueChanges == [] C21_OneValue /\ [][C21_Step]_vars

\* Hue and saturation are available, one frame was filtered, then one
\* control change gave hue a new value: the parameter buffer still holds
\* the former hue, and the saturation it holds is the stored one.
C21_HueChangedAlone ==
    /\ psz_name = "adjust"
    /\ pc = "idle"
    /\ frames.n = 1
    /\ n_updates = 1
    /\ AvailModes(p_data) = << ADJUST_HUE, ADJUST_SAT >>
    /\ Len(param_buf) = 2
    /\ param_buf[1].value # p_data.params.sigma[ADJUST_HUE].drv_value
    /\ param_buf[2].value = p_data.params.sigma[ADJUST_SAT].drv_value
    /\ stored = DrvValues(p_data)

(***************************************************************************)
(* C22                                                                     *)
(***************************************************************************)
\* The picture at offset forward_refs.sz of a full window: the one submitted
\* backward_refs.sz pushes before the newest.
C22_Current == frames.n - p_data.backward_refs.sz

\* The flag of the filled pipeline parameters follows the field order of
\* that picture, and the pictures handed out by Deinterlace are progressive.
C22_Flag ==
    (psz_name = "deinterlace" /\ SessionOpen) =>
        /\ loc.pipeline_params.set =>
             /\ p_data.history.pp_pics[p_data.forward_refs.sz] = C22_Current
             /\ frames.refs[C22_Current] = 1
             /\ loc.pipeline_params.filter_flags
                    = "VA_DEINTERLACING_BOTTOM_FIELD_FIRST"
                  <=> ~ frames.tff[C22_Current]
        /\ \A d \in 1 .. DEST_PICS_POOL_SZ :
             (pool.refs[d] > 0 /\ d # loc.dest)
                 => pool.props[d].b_progressive

\* Deinterlace marks the picture Filter gave it before it returns it.
C22_Step ==
    (psz_name = "deinterlace" /\ pc = "ret" /\ pc' = "idle"
       /\ loc.out # NULL)
        => /\ pool'.props[loc.out].b_progressive
           /\ pool'.refs[loc.out] = 1

\* C22: in every render of a Deinterlace filter whose window is full the
\* bottom-field-first flag of the pipeline parameters is set exactly when
\* the current picture of the window, the one at offset forward_refs.sz and
\* not the newest, is not top-field-first, and every picture Deinterlace
\* returns is marked progressive.
C22_FlagOfCurrentPicture == [] C22_Flag /\ [][C22_Step]_vars

\* One backward reference: the newest picture is top-field-first, the
\* current one is not, and the flag is set.
C22_NewestDiffers ==
    /\ psz_name = "deinterlace"
    /\ pc = "Filter_UnmapPipeline"
    /\ loc.pipeline_params.set
    /\ p_data.backward_refs.sz = 1
    /\ frames.tff[frames.n]
    /\ ~ frames.tff[frames.n - 1]
    /\ loc.pipeline_params.filter_flags = "VA_DEINTERLACING_BOTTOM_FIELD_FIRST"

(***************************************************************************)
(* C23                                                                     *)
(***************************************************************************)
\* Adjust and the Basic filters.
C23_Kinds == { "adjust", "denoise", "sharpen" }

\* The one reference of a submitted picture is held exactly while the call
\* it was submitted to is running.
C23_References ==
    (psz_name \in C23_Kinds /\ SessionOpen) =>
        \A f \in 1 .. MaxFrames :
           frames.refs[f] =
               IF pc \in FilterPcs \cup { "ret" } /\ f = loc.src
               THEN 1 ELSE 0

\* Filter leaves the source pictures alone; the filter function releases
\* the picture it was called with when Filter has returned, with or
\* without an output picture.
C23_Step ==
    (psz_name \in C23_Kinds) =>
        /\ pc \in FilterPcs => frames' = frames
        /\ (pc = "ret" /\ pc' = "idle") =>
              /\ loc.src = frames.n
              /\ frames.refs[loc.src] = 1
              /\ frames'.refs[loc.src] = 0
              /\ \A f \in 1 .. MaxFrames \ { loc.src } :
                   frames'.refs[f] = frames.refs[f]

\* C23: every call of Adjust and of BasicFilter releases the picture it was
\* given exactly once, when Filter returned an output picture as when it
\* failed or found the pool empty, and Filter itself never releases it.
C23_SourceReleasedOnce == [] C23_References /\ [][C23_Step]_vars

\* Four pictures went through a sharpen filter, the last of them found the
\* pool empty: none holds a reference.
C23_AllReleased ==
    /\ psz_name = "sharpen"
    /\ pc = "idle"
    /\ frames.n = 4
    /\ pool.free = {}
    /\ \A f \in 1 .. MaxFrames : frames.refs[f] = 0

(***************************************************************************)
(* C24                                                                     *)
(***************************************************************************)
\* C24: every rendering pass a call of Filter begins on the context of the
\* session is ended before the call returns, on the success path and on
\* every failure path after BeginPicture, so that no pass is open between
\* two calls of Filter.
C24_NoOpenPassBetweenCalls ==
    (pc \in { "ret", "idle" }) => ~ drv.in_picture

\* The creation of the pipeline buffer failed after BeginPicture: Filter
\* has returned NULL without a call of EndPicture, and the pass is open.
C24_PassLeftOpen ==
    /\ pc = "ret"
    /\ loc.out = NULL
    /\ drv.in_picture
    /\ Len(va_calls) >= 2
    /\ va_calls[Len(va_calls) - 1].op = "BeginPicture"
    /\ va_calls[Len(va_calls)] = Call("CreateBuffer", filter_sys.ctx)
    /\ \A k \in 1 .. Len(va_calls) : va_calls[k].op # "EndPicture"

(***************************************************************************)
(* C25                                                                     *)
(***************************************************************************)
\* C25: the only buffer a failing call of Filter destroys is the pipeline
\* buffer that same call created; when the failure comes before the
\* creation (the map or unmap of the parameter buffer, BeginPicture), no
\* buffer is destroyed.
C25_DestroysOnlyOwnPipelineBuffer ==
    (pc = "ret") =>
        \A k \in 1 .. Len(va_calls) :
           va_calls[k].op = "DestroyBuffer" =>
              /\ loc.pipeline_buf_init
              /\ va_calls[k].handle = loc.pipeline_buf
              /\ va_calls[k].handle # filter_sys.buf
              /\ \E j \in 1 .. k - 1 :
                   va_calls[j] = Call("CreateBuffer", filter_sys.ctx)

\* BeginPicture failed in the second call of Filter, no pipeline buffer was
\* created by it, and the error label destroyed a buffer all the same: the
\* one the first call had created.
C25_DestroyedBufferOfEarlierCall ==
    /\ pc = "ret"
    /\ frames.n = 2
    /\ ~ loc.pipeline_buf_init
    /\ Len(va_calls) >= 2
    /\ va_calls[Len(va_calls) - 1].op = "BeginPicture"
    /\ va_calls[Len(va_calls)].op = "DestroyBuffer"
    /\ va_calls[Len(va_calls)].handle \notin { 0, VA_INVALID_ID,
                                               filter_sys.buf }
    /\ \A k \in 1 .. Len(va_calls) : va_calls[k].op # "CreateBuffer"

(***************************************************************************)
(* C26                                                                     *)
(***************************************************************************)
\* The calls of Open that are given a handle of the session.
C26_HandleOps ==
    { "CreateContext", "IsVideoProcFilterAvailable",
      "QueryVideoProcFilterCaps", "CreateBuffer",
      "QueryVideoProcPipelineCaps", "DestroyBuffer", "DestroyContext",
      "DestroyConfig" }

\* C26: no call Open makes to the driver is given a handle that still holds
\* VA_INVALID_ID; the capability query of the pf_init_filter_params of
\* Adjust, of the Basic filters and of Deinterlace is made on the context
\* Open has created.
C26_OpenCallsUseValidHandles ==
    (pc \in OpenPcs) =>
        \A k \in 1 .. Len(va_calls) :
           /\ va_calls[k].op \in C26_HandleOps
                => va_calls[k].handle # VA_INVALID_ID
           /\ (/\ va_calls[k].op = "QueryVideoProcFilterCaps"
               /\ filter_sys.alloc)
                => /\ va_calls[k].handle = filter_sys.ctx
                   /\ va_calls[k].handle \in drv.contexts

\* OpenDeinterlace_InitFilterParams has made its query with va.buf, which
\* holds VA_INVALID_ID until the buffer is created, while the context
\* exists.
C26_QueriedWithInvalidBuffer ==
    /\ psz_name = "deinterlace"
    /\ pc = "Open_CreateBuffer"
    /\ filter_sys.buf = VA_INVALID_ID
    /\ filter_sys.ctx \in drv.contexts
    /\ va_calls[Len(va_calls)]
           = Call("QueryVideoProcFilterCaps", VA_INVALID_ID)

(***************************************************************************)
(* C27                                                                     *)
(***************************************************************************)
\* The output pictures that were handed out and not yet dropped.
C27_Held == { d \in 1 .. DEST_PICS_POOL_SZ : pool.refs[d] > 0 }

\* With b the backward capacity, the picture a running call of Filter has
\* as source is the one submitted b pushes before the newest, the pipeline
\* parameters and the destination carry it, and the outputs that exist come
\* from pictures up to that one, no two from the same.
C27_Source ==
    (psz_name = "deinterlace" /\ SessionOpen) =>
        LET b == p_data.backward_refs.sz
        IN  /\ pc \in FilterPcs =>
                 /\ loc.src = frames.n - b
                 /\ loc.src >= 1
                 /\ loc.dest # NULL => pool.props[loc.dest].from = loc.src
            /\ loc.pipeline_params.set =>
                 loc.pipeline_params.surface
                     = vlc_vaapi_PicGetSurface("src", frames.n - b)
            /\ \A d \in C27_Held :
                 /\ pool.props[d].from \in 1 .. frames.n - b
                 /\ \A e \in C27_Held \ { d } :
                      pool.props[e].from # pool.props[d].from
                 /\ (pc \in FilterPcs /\ d # loc.dest)
                      => pool.props[d].from < loc.src

\* Each push submits one picture more, so the source of each render is the
\* picture after that of the render before; the close releases the last b
\* pictures, which are still in the window.
C27_Step ==
    (psz_name = "deinterlace" /\ pc = "idle") =>
        LET b == p_data.backward_refs.sz
        IN  /\ pc' \in { "Filter", "ret" } => frames'.n = frames.n + 1
            /\ pc' = "closed" =>
                 \A f \in 1 .. frames.n :
                    f > frames.n - b =>
                       /\ f \in C16_Window
                       /\ frames.refs[f] = 1
                       /\ frames'.refs[f] = 0

\* C27: in a Deinterlace filter with b backward references the picture
\* rendered as source on a push, whose properties the output carries, is the
\* one submitted b pushes earlier; outputs come in the order of submission,
\* no picture is the source of two renders, and the last b pictures
\* submitted before the close are released without having been the source
\* of a render.
C27_SourceIsBPushesEarlier == [] C27_Source /\ [][C27_Step]_vars

\* One backward and no forward reference: the third push has rendered the
\* second picture while the output of the first is still held.
C27_SecondAfterFirst ==
    /\ psz_name = "deinterlace"
    /\ pc = "ret"
    /\ p_data.backward_refs.sz = 1
    /\ p_data.forward_refs.sz = 0
    /\ frames.n = 3
    /\ loc.out = 2
    /\ pool.props[2].from = 2
    /\ pool.refs[1] = 1
    /\ pool.props[1].from = 1

(***************************************************************************)
(* C28                                                                     *)
(***************************************************************************)
\* C28: in OpenAdjust_InitFilterParams, however many capabilities the
\* hardware reports, from none to VAProcColorBalanceCount, the index with
\* which the channel tables are read and the state of a channel is written
\* is one of the four channels 0 .. NUM_ADJUST_MODES - 1.
C28_ChannelIndexInBounds ==
    \A a \in ub :
       a.what \in { "read va_adjust_modes", "write sigma" }
           => a.idx \in 0 .. NUM_ADJUST_MODES - 1

\* Five capabilities were reported: the loop has read va_adjust_modes[4],
\* past the four entries of the table, and found no capability of that
\* type, so that nothing was written with that index.
C28_ReadPastTheTable ==
    /\ psz_name = "adjust"
    /\ pc = "Open_CreateBuffer"
    /\ Cardinality(drv.reported) = 5
    /\ ub = { [ what |-> "read va_adjust_modes", idx |-> NUM_ADJUST_MODES ] }
    /\ p_data.num_available_modes = Len(AvailModes(p_data))

=============================================================================
